---- MODULE Spec2Model ----
(***************************************************************************)
(* A model of the maemio engine core: per-thread logical clocks, versioned *)
(* records (inline slot + version chain), optimistic transactions.         *)
(*                                                                         *)
(* A u64 is modelled as its eight bytes, most significant first, so that   *)
(* the wrap-around of 64-bit arithmetic and shifts is the code's.          *)
(***************************************************************************)
EXTENDS Integers, Sequences, FiniteSets, TLC

\* ------------------------------------------------------------------ bounds
NThreads == 2
MaxCalls == 8
MaxTick == 1
MaxBoosts == 1
NRecords == 2
MaxTx == 3
MaxOps == 3
MaxSeededOps == 4
MaxLarge == 1
MaxLive == 2
MaxExecCalls == 2
MaxBlindWrites == 1
MaxGcWrites == 3
MaxCreateOps == 3
MaxContentionWrites == 2
MaxClimbSteps == 3
MaxBackoffCalls == 2
MaxOtherLocks == 1
MaxIndexOps == 3
MaxTreeOps == 8
MaxRtsCalls == 4
MaxRecordCommits == 5
MaxDirectSteps == 4
MaxPasses == 2

\* ------------------------------------------------------- program constants
U64Bytes == 8
ArcBytes == 8
MAX_THREAD_ID == 255
MAX_INLINE_SIZE == 216
VERSION_STATUS_PENDING == 1
VERSION_STATUS_COMMITTED == 2
VERSION_STATUS_ABORTED == 3
MAX_ATTEMPTS == 10
WAIT_MAX_ATTEMPTS == 1000
MIN_DEGREE == 4
HASH_BUCKETS == 1024
DEFAULT_BACKOFF_STEP == 5

\* --------------------------------------------------------- u64 arithmetic
ByteBase == 256

RECURSIVE NatBytes(_, _)
NatBytes(n, k) ==
    IF k = 0 THEN <<>> ELSE NatBytes(n \div ByteBase, k - 1) \o <<n % ByteBase>>

\* the u64 holding the small natural n
U64(n) == NatBytes(n, U64Bytes)

U64Zero == U64(0)

U64MaxValue == [i \in 1..U64Bytes |-> ByteBase - 1]

U64Lt(a, b) ==
    \E i \in 1..U64Bytes : a[i] < b[i] /\ \A j \in 1..(i - 1) : a[j] = b[j]

U64Le(a, b) == a = b \/ U64Lt(a, b)

\* std::cmp::max on u64
U64Max(a, b) == IF U64Lt(a, b) THEN b ELSE a

RECURSIVE AddFrom(_, _, _, _)
AddFrom(a, b, i, carry) ==
    IF i = 0 THEN <<>>
    ELSE LET s == a[i] + b[i] + carry
         IN  AddFrom(a, b, i - 1, s \div ByteBase) \o <<s % ByteBase>>

\* wrapping 64-bit addition
U64Add(a, b) == AddFrom(a, b, U64Bytes, 0)

RECURSIVE CarryOut(_, _, _, _)
CarryOut(a, b, i, carry) ==
    IF i = 0 THEN carry
    ELSE CarryOut(a, b, i - 1, (a[i] + b[i] + carry) \div ByteBase)

\* a + b does not fit in 64 bits
U64AddOverflows(a, b) == CarryOut(a, b, U64Bytes, 0) = 1

\* x << 8 on u64: the top byte is shifted out
U64Shl8(a) == [i \in 1..U64Bytes |-> IF i < U64Bytes THEN a[i + 1] ELSE 0]

RECURSIVE BitOr(_, _)
BitOr(x, y) ==
    IF x = 0 THEN y
    ELSE IF y = 0 THEN x
    ELSE 2 * BitOr(x \div 2, y \div 2) + (IF x % 2 = 1 \/ y % 2 = 1 THEN 1 ELSE 0)

\* x | (b as u64) for a byte b
U64OrByte(a, b) == [a EXCEPT ![U64Bytes] = BitOr(a[U64Bytes], b)]

\* x & 0xFF
U64LowByte(a) == a[U64Bytes]

\* x.saturating_sub(1)
U64SatDec(a) ==
    IF a = U64Zero THEN a
    ELSE LET k == CHOOSE i \in 1..U64Bytes :
                      a[i] # 0 /\ \A j \in (i + 1)..U64Bytes : a[j] = 0
         IN  [i \in 1..U64Bytes |->
                 IF i < k THEN a[i] ELSE IF i = k THEN a[i] - 1 ELSE ByteBase - 1]

\* ------------------------------------------------------------------ state
VARIABLES
    clocks,     \* ClockManager.clocks: thread id -> Clock
    issued,     \* per clock, the write timestamps returned so far, oldest first
    panicked,   \* clocks whose owner panicked on an arithmetic overflow
    boosts,     \* apply_boost calls made so far
    records,    \* the record store: record id -> RecordHead, for the ids created
    txs,        \* the transactions: slot -> Transaction and where it stands
    installs,   \* install_version calls made by commits so far (orders the events)
    budget,     \* reads and writes the transactions may still make
    mgr,        \* ClockManager.min_write_ts / min_read_ts, and what the last
                \* TransactionManager::create_record returned
    gc,         \* the engine's GarbageCollector and the collector thread's clone
    exec        \* one caller inside execute_with_gc

Threads == 0..(NThreads - 1)

\* ------------------------------------------------------------------ Clock
Clock_new(thread_id) ==
    [ local_clock    |-> U64Zero,
      clock_boost    |-> U64Zero,
      thread_id      |-> thread_id,
      last_timestamp |-> U64Zero,
      read_timestamp |-> U64Zero ]

\* Clock::new fails for thread_id >= 255
Clock_new_ok(thread_id) == thread_id < MAX_THREAD_ID

\* ClockManager::new(thread_count, _): clocks 0..thread_count-1
ClockManager_new == [id \in Threads |-> Clock_new(id)]

\* Clock::new(thread_id): Ok(clock) or Err(System)
Clock_new_result(thread_id) ==
    IF thread_id >= MAX_THREAD_ID
    THEN [res |-> "System", clock |-> <<>>]
    ELSE [res |-> "Ok", clock |-> <<Clock_new(thread_id)>>]

\* Vec::with_capacity(thread_count) for a Vec of Arc<Clock>, ArcBytes each:
\* it panics with "capacity overflow" when the bytes exceed isize::MAX, which
\* is when one of the 4 top bits of thread_count is set
capacity_overflows(thread_count) == thread_count[1] >= ByteBase \div (2 * ArcBytes)

\* the u64 as a number, for the values below 2^16
U64Small(a) == a[U64Bytes - 1] * ByteBase + a[U64Bytes]

\* the loop of ClockManager::new: Clock::new(id as u8)? pushed for each id
\* below thread_count.  The ids whose Clock::new fails are looked for among
\* the first ByteBase ones, the loop returning at the first of them
push_clocks(thread_count) ==
    LET failing == {id \in 0..(ByteBase - 1) :
                       /\ U64Lt(U64(id), thread_count)
                       /\ Clock_new_result(id % ByteBase).res # "Ok"}
    IN  IF failing # {}
        THEN [res |-> Clock_new_result(
                          (CHOOSE id \in failing : \A other \in failing : id <= other)
                              % ByteBase).res,
              clocks |-> <<>>]
        ELSE [res |-> "Ok",
              clocks |-> [i \in 1..U64Small(thread_count) |->
                             Clock_new_result((i - 1) % ByteBase).clock[1]]]

\* ClockManager::new(thread_count, _): a panic, Err(System) or Ok(manager)
ClockManager_new_result(thread_count) ==
    IF capacity_overflows(thread_count) THEN [res |-> "panic", clocks |-> <<>>]
    ELSE push_clocks(thread_count)

\* the clock after local_clock.fetch_add(now)
tick(c, now) == [c EXCEPT !.local_clock = U64Add(c.local_clock, now)]

\* the value generate_write_timestamp stores and returns, local_clock advanced
write_timestamp_unshifted(c) ==
    LET boosted_clock == U64Add(c.local_clock, c.clock_boost)
        new_clock     == U64Max(boosted_clock, U64Add(c.last_timestamp, U64(1)))
    IN  U64OrByte(new_clock, c.thread_id)

write_timestamp(c) ==
    LET boosted_clock == U64Add(c.local_clock, c.clock_boost)
        new_clock     == U64Max(boosted_clock, U64Add(c.last_timestamp, U64(1)))
    IN  U64OrByte(U64Shl8(new_clock), c.thread_id)

\* current_clock + clock_boost overflows: a panic in a build with overflow
\* checks, a wrap-around otherwise
boost_overflows(c) == U64AddOverflows(c.local_clock, c.clock_boost)

\* the clock after a generate_write_timestamp that returned
generate_write_timestamp(c, now) ==
    [tick(c, now) EXCEPT !.last_timestamp = write_timestamp(tick(c, now))]

generate_read_timestamp(c, min_write_ts) ==
    [c EXCEPT !.read_timestamp = U64SatDec(min_write_ts)]

synchronize_with(c, other) ==
    IF U64Lt(c.local_clock, other.local_clock)
    THEN [c EXCEPT !.local_clock = other.local_clock]
    ELSE c

apply_boost(c, boost_amount) == [c EXCEPT !.clock_boost = boost_amount]

reset_boost(c) == [c EXCEPT !.clock_boost = U64Zero]

store == <<records, txs, installs, budget>>

maintenance == <<mgr, gc, exec>>

RecordIds == 1..NRecords
TxIds == 1..MaxTx

\* ------------------------------------------------------------------- maps
EmptyMap == <<>>

MapPut(f, k, v) == [x \in DOMAIN f \cup {k} |-> IF x = k THEN v ELSE f[x]]

MapDel(f, k) == [x \in DOMAIN f \ {k} |-> f[x]]

\* ---------------------------------------------------------------- Version
\* a payload of len bytes; tag tells payloads of one length apart
Payload(len, tag) == [len |-> len, tag |-> tag]

Version_new(wts, data) ==
    [ wts    |-> wts,
      rts    |-> U64Zero,
      status |-> VERSION_STATUS_PENDING,
      data   |-> data ]

is_visible_to(v, ts) == U64Le(v.wts, ts) /\ v.status = VERSION_STATUS_COMMITTED

Version_commit(v) == [v EXCEPT !.status = VERSION_STATUS_COMMITTED]

\* ------------------------------------------------------------- RecordHead
\* A chain is a sequence of versions: a version followed by the versions its
\* next links reach; the empty sequence is None.
RecordHead_new(creation_ts) ==
    [ version_list       |-> <<>>,
      inline_version     |-> <<>>,
      min_wts            |-> creation_ts,
      gc_lock            |-> FALSE,
      creation_timestamp |-> creation_ts ]

\* an install_version that puts every small version inline, whatever its wts
install_version_newest_inline(r, chain) ==
    LET version == chain[1] IN
    IF version.data.len <= MAX_INLINE_SIZE /\ r.inline_version = <<>>
    THEN [r EXCEPT !.inline_version = chain]
    ELSE IF version.data.len <= MAX_INLINE_SIZE
    THEN [r EXCEPT !.version_list = <<r.inline_version[1]>> \o r.version_list,
                   !.inline_version = chain]
    ELSE [r EXCEPT !.version_list = <<version>> \o r.version_list]

\* an install_version that overwrites the inline version it displaces
install_version_overwriting(r, chain) ==
    LET version == chain[1] IN
    IF version.data.len <= MAX_INLINE_SIZE /\ r.inline_version = <<>>
    THEN [r EXCEPT !.inline_version = chain]
    ELSE IF /\ version.data.len <= MAX_INLINE_SIZE
            /\ U64Le(r.inline_version[1].wts, version.wts)
    THEN [r EXCEPT !.inline_version = chain]
    ELSE [r EXCEPT !.version_list = <<version>> \o r.version_list]

\* install_version(version), version given as a chain headed by it
install_version(r, chain) ==
    LET version == chain[1] IN
    IF version.data.len <= MAX_INLINE_SIZE /\ r.inline_version = <<>>
    THEN [r EXCEPT !.inline_version = chain]
    ELSE IF /\ version.data.len <= MAX_INLINE_SIZE
            /\ U64Le(r.inline_version[1].wts, version.wts)
    THEN [r EXCEPT !.version_list = <<r.inline_version[1]>> \o r.version_list,
                   !.inline_version = chain]
    ELSE [r EXCEPT !.version_list = <<version>> \o r.version_list]

RECURSIVE first_visible(_, _)
first_visible(chain, ts) ==
    IF chain = <<>> THEN <<>>
    ELSE IF is_visible_to(chain[1], ts) THEN <<chain[1]>>
    ELSE first_visible(Tail(chain), ts)

\* a lookup that does not look at creation_timestamp
find_visible_version_uncreated(r, ts) ==
    IF r.inline_version # <<>> /\ is_visible_to(r.inline_version[1], ts)
    THEN <<r.inline_version[1]>>
    ELSE first_visible(r.version_list, ts)

\* find_visible_version(ts): <<>> for None, <<v>> for Some(v)
find_visible_version(r, ts) ==
    IF U64Lt(ts, r.creation_timestamp) THEN <<>>
    ELSE IF r.inline_version # <<>> /\ is_visible_to(r.inline_version[1], ts)
    THEN <<r.inline_version[1]>>
    ELSE first_visible(r.version_list, ts)

\* ------------------------------------------------------------ Transaction
NoResult == [op |-> "none", id |-> 0, res |-> "none", version |-> <<>>]

Result(op, id, res, version) == [op |-> op, id |-> id, res |-> res, version |-> version]

\* a slot no transaction has begun in.  timestamp .. local_writes are the
\* fields of Transaction; pending is the write set commit took and still has to
\* install; the rest is the history the properties speak about: the result of
\* the last call, the versions read from the store, the bytes passed to write,
\* and the value of installs at begin, at each read and write, after each
\* install and at the return of commit
FreeTx ==
    [ state        |-> "free",
      thread_id    |-> 0,
      timestamp    |-> U64Zero,
      read_set     |-> EmptyMap,
      write_set    |-> EmptyMap,
      local_writes |-> EmptyMap,
      pending      |-> EmptyMap,
      validated    |-> "none",
      result       |-> NoResult,
      observed     |-> {},
      written      |-> EmptyMap,
      begin_at     |-> 0,
      read_at      |-> EmptyMap,
      write_at     |-> EmptyMap,
      installed_at |-> EmptyMap,
      done_at      |-> 0 ]

\* Transaction::new: the timestamp is the clock's next write timestamp
Transaction_new(timestamp, thread_id) ==
    [FreeTx EXCEPT !.state = "active", !.thread_id = thread_id,
                   !.timestamp = timestamp, !.begin_at = installs]

\* a read that goes to the store whatever the transaction wrote
read_result_from_store(tx, record_id) ==
    IF record_id \notin DOMAIN records
    THEN Result("read", record_id, "RecordNotFound", <<>>)
    ELSE LET visible == find_visible_version(records[record_id], tx.timestamp)
         IN  IF visible = <<>>
             THEN Result("read", record_id, "NoVisibleVersion", <<>>)
             ELSE Result("read", record_id, "Ok", visible)

\* Transaction::read: what it returns
read_result(tx, record_id) ==
    IF record_id \in DOMAIN tx.local_writes
    THEN Result("read", record_id, "Ok", <<tx.local_writes[record_id]>>)
    ELSE IF record_id \notin DOMAIN records
    THEN Result("read", record_id, "RecordNotFound", <<>>)
    ELSE LET visible == find_visible_version(records[record_id], tx.timestamp)
         IN  IF visible = <<>>
             THEN Result("read", record_id, "NoVisibleVersion", <<>>)
             ELSE Result("read", record_id, "Ok", visible)

read_inserts(tx, record_id) ==
    /\ record_id \notin DOMAIN tx.local_writes
    /\ read_result(tx, record_id).res = "Ok"

read(tx, record_id) ==
    LET r == read_result(tx, record_id) IN
    IF read_inserts(tx, record_id)
    THEN [tx EXCEPT !.read_set = MapPut(@, record_id, r.version[1]),
                    !.result = r]
    ELSE [tx EXCEPT !.result = r]

\* a write that does not look the record up
write_unchecked(tx, record_id, data) ==
    LET new_version == Version_new(tx.timestamp, data)
    IN  [tx EXCEPT !.write_set = MapPut(@, record_id, new_version),
                   !.local_writes = MapPut(@, record_id, new_version),
                   !.result = Result("write", record_id, "Ok", <<>>)]

\* Transaction::write
write(tx, record_id, data) ==
    IF record_id \notin DOMAIN records
    THEN [tx EXCEPT !.result = Result("write", record_id, "RecordNotFound", <<>>)]
    ELSE LET new_version == Version_new(tx.timestamp, data)
         IN  [tx EXCEPT !.write_set = MapPut(@, record_id, new_version),
                        !.local_writes = MapPut(@, record_id, new_version),
                        !.result = Result("write", record_id, "Ok", <<>>)]

\* Transaction::validate: the errors the write checks can end in
write_check_errors(tx) ==
    {"RecordNotFound" : id \in {i \in DOMAIN tx.write_set : i \notin DOMAIN records}}
    \cup
    {"Conflict" : id \in {i \in DOMAIN tx.write_set :
        /\ i \in DOMAIN records
        /\ LET current_visible == find_visible_version(records[i], tx.timestamp)
           IN  /\ current_visible # <<>>
               /\ U64Lt(tx.timestamp, current_visible[1].wts)}}

\* a read check that is content with any visible version
read_check_any_visible(tx, id) ==
    IF id \notin DOMAIN records THEN "RecordNotFound"
    ELSE LET current_visible == find_visible_version(records[id], tx.timestamp)
         IN  IF current_visible = <<>> THEN "ValidationFailed" ELSE "Ok"

\* Transaction::validate: the error of the read check of record id, "Ok" if none
read_check(tx, id) ==
    IF id \notin DOMAIN records THEN "RecordNotFound"
    ELSE LET current_visible == find_visible_version(records[id], tx.timestamp)
         IN  IF current_visible = <<>> THEN "ValidationFailed"
             ELSE IF current_visible[1].wts # tx.read_set[id].wts THEN "Conflict"
             ELSE "Ok"

read_check_errors(tx) ==
    {read_check(tx, id) : id \in DOMAIN tx.read_set} \ {"Ok"}

\* Transaction::validate: what it can return (the maps are walked in an order
\* the hash map picks, so the first failing check is any failing check of the
\* write checks or, when those pass, of the read checks)
validate(tx) ==
    IF write_check_errors(tx) # {} THEN write_check_errors(tx)
    ELSE IF read_check_errors(tx) # {} THEN read_check_errors(tx)
    ELSE {"Ok"}


\* ThreadStats::new for each thread: the Vec the clones of a ContentionManager
\* share
ThreadStats_new ==
    [ commit_count      |-> [thread_id \in Threads |-> 0],
      last_commit_count |-> [thread_id \in Threads |-> 0] ]

\* ContentionManager::new: the atomics every ContentionManager has of its own
ContentionManager_new ==
    [ max_backoff_time  |-> 0,
      last_throughput   |-> 0,
      last_backoff      |-> 0,
      positive_gradient |-> TRUE ]

\* ------------------------------------------------------------- indexes
\* IndexKey::Int keys; 1 and 1025 share a bucket of the hash index
IndexKeys == {1, 2, 1025}

\* BTreeNode::new(is_leaf) with its IndexNode: wts 0 and no record ids
BTreeNode_new(is_leaf) ==
    [ keys |-> <<>>, records |-> <<>>, wts |-> 0, is_leaf |-> is_leaf ]

\* get_bucket_index for IndexKey::Int(i): i & (num_buckets - 1)
get_bucket_index(key) == key % HASH_BUCKETS

\* HashIndex::new(1024), as IndexManager::create_index makes it: the buckets
\* the keys fall into, each an IndexNode wts and a HashMap
HashIndex_new ==
    [b \in {get_bucket_index(k) : k \in IndexKeys} |-> [wts |-> 0, map |-> EmptyMap]]

\* no call on an index under way.  held are the lock guards the caller has
\* alive, wants the lock it is waiting for
IndexIdle ==
    [ pc |-> "idle", op |-> "none", index |-> "none", key |-> 0, record_id |-> 0,
      ts |-> 0, held |-> {}, wants |-> <<>>, res |-> "none", value |-> <<>> ]

\* no sleep made by backoff
NoSleep == [did |-> FALSE, micros |-> 0]

\* ClockManager::new: both minima 0; no create_record call made yet.
\* TransactionManager::new: its ContentionManager, no hill climbing thread
\* (climber is the thread's ContentionManager, <<>> while there is none;
\* clock_made and manager_made hold the argument and the outcome of the last
\* Clock::new and ClockManager::new call; rts_version is a Version several
\* callers call update_rts on, rts_calls where each of them is, rts_args the
\* arguments of the calls that returned; wait_record is a RecordHead whose
\* newest version a caller of wait_pending waits on, wait_call that caller,
\* wait_found the last find_visible_version on it; btree is the root leaf of a
\* BTreeIndex, hash the bucket maps and wts of a HashIndex, index_call the call
\* a thread has made on one of them, index_log what was inserted under each
\* key of each index)
Manager_new ==
    [ min_write_ts  |-> U64Zero,
      min_read_ts   |-> U64Zero,
      create_result |-> "none",
      thread_stats  |-> ThreadStats_new,
      contention    |-> ContentionManager_new,
      climber       |-> <<>>,
      climb_steps   |-> 0,
      backoff_calls |-> 0,
      slept         |-> NoSleep,
      clock_made    |-> <<>>,
      manager_made  |-> <<>>,
      rts_version   |-> Version_new(U64Zero, Payload(MAX_INLINE_SIZE, 1)),
      rts_calls     |-> [c \in Threads |-> [pc |-> "idle", ts |-> U64Zero, current |-> U64Zero]],
      rts_args      |-> {},
      rts_started   |-> 0,
      wait_record   |-> RecordHead_new(U64Zero),
      wait_call     |-> [pc |-> "idle", status |-> 0, attempts |-> 0, result |-> FALSE],
      wait_found    |-> [asked |-> FALSE, ts |-> U64Zero, version |-> <<>>],
      wait_steps    |-> 0,
      btree         |-> BTreeNode_new(TRUE),
      hash          |-> HashIndex_new,
      index_call    |-> IndexIdle,
      index_log     |-> [x \in {"btree", "hash"} |-> [k \in IndexKeys |-> <<>>]] ]

\* GarbageCollector::new: an empty queue; no collector thread started
GarbageCollector_new ==
    [ queue        |-> <<>>,
      started      |-> FALSE,
      thread_queue |-> <<>>,
      asleep       |-> FALSE,
      examined     |-> {},
      passes       |-> 0,
      pass         |-> <<>>,
      waiting      |-> <<>>,
      ended        |-> <<>>,
      other        |-> [pc |-> "idle", record |-> 0, calls |-> 0] ]

\* no call of execute_with_gc under way
ExecIdle ==
    [ pc        |-> "idle",
      thread_id |-> 0,
      attempts  |-> 0,
      tx        |-> FreeTx,
      begun     |-> 0,
      backoffs  |-> 0,
      conflicts |-> 0,
      commits   |-> 0,
      steps     |-> 0,
      last      |-> "none",
      result    |-> "none",
      slept     |-> NoSleep,
      recorded  |-> 0,
      tracked   |-> <<>>,
      committed |-> <<>>,
      calls     |-> 0 ]

vars == <<clocks, issued, panicked, boosts, records, txs, installs, budget, mgr, gc, exec>>

\* ------------------------------------------------- the clocks on their own
ClockInit ==
    /\ clocks = ClockManager_new
    /\ issued = [c \in Threads |-> <<>>]
    /\ panicked = {}
    /\ boosts = 0
    /\ records = EmptyMap
    /\ txs = [t \in TxIds |-> FreeTx]
    /\ installs = 0
    /\ budget = MaxOps
    /\ mgr = Manager_new
    /\ gc = GarbageCollector_new
    /\ exec = ExecIdle

\* elapsed micro-ticks a call may observe
Ticks == {U64(n) : n \in 0..MaxTick}

\* boosts a caller may apply
BoostAmounts == {U64(1), U64MaxValue}

RECURSIVE SumLen(_, _)
SumLen(f, S) ==
    IF S = {} THEN 0
    ELSE LET x == CHOOSE y \in S : TRUE IN Len(f[x]) + SumLen(f, S \ {x})

\* generate_write_timestamp calls that have returned, over all clocks
CallsMade == SumLen(issued, Threads)

ClockGenerate(c, now) ==
    /\ c \notin panicked
    /\ CallsMade < MaxCalls
    /\ clocks' = [clocks EXCEPT ![c] = generate_write_timestamp(@, now)]
    /\ issued' = [issued EXCEPT ![c] = Append(@, clocks'[c].last_timestamp)]
    /\ UNCHANGED <<panicked, boosts, store, maintenance>>

\* generate_write_timestamp in a build with overflow checks, when
\* current_clock + clock_boost overflows: the caller panics after the fetch_add
ClockGeneratePanic(c, now) ==
    /\ c \notin panicked
    /\ CallsMade < MaxCalls
    /\ boost_overflows(tick(clocks[c], now))
    /\ clocks' = [clocks EXCEPT ![c] = tick(@, now)]
    /\ panicked' = panicked \cup {c}
    /\ UNCHANGED <<issued, boosts, store, maintenance>>

ClockApplyBoost(c, b) ==
    /\ c \notin panicked
    /\ boosts < MaxBoosts
    /\ clocks' = [clocks EXCEPT ![c] = apply_boost(@, b)]
    /\ boosts' = boosts + 1
    /\ UNCHANGED <<issued, panicked, store, maintenance>>

ClockResetBoost(c) ==
    /\ clocks[c].clock_boost # U64Zero
    /\ clocks' = [clocks EXCEPT ![c] = reset_boost(@)]
    /\ UNCHANGED <<issued, panicked, boosts, store, maintenance>>

\* one step of ClockManager::start_synchronization's ring
ClockSynchronize(i) ==
    /\ clocks' = [clocks EXCEPT ![i] = synchronize_with(@, clocks[(i + 1) % NThreads])]
    /\ clocks' # clocks
    /\ UNCHANGED <<issued, panicked, boosts, store, maintenance>>

\* the clocks as the engine drives them: nothing in the engine applies a boost
ClockNext ==
    \/ \E c \in Threads, now \in Ticks : ClockGenerate(c, now)
    \/ \E i \in Threads : ClockSynchronize(i)

SpecClock == ClockInit /\ [][ClockNext]_vars

\* the clocks under every operation of Clock
ClockBoostNext ==
    \/ ClockNext
    \/ \E c \in Threads, now \in Ticks : ClockGeneratePanic(c, now)
    \/ \E c \in Threads, b \in BoostAmounts : ClockApplyBoost(c, b)
    \/ \E c \in Threads : ClockResetBoost(c)

SpecClockBoost == ClockInit /\ [][ClockBoostNext]_vars

\* ------------------------------------------------------------ the engine
\* payload sizes a transaction writes: the largest inline one, the smallest
\* that is not
PayloadLens == {MAX_INLINE_SIZE, MAX_INLINE_SIZE + 1}

Init == ClockInit

\* Instant::now().elapsed() is read right after the Instant is made: in the
\* engine's runs it is 0 microseconds (SpecClock explores the other values)
BeginTicks == {U64Zero}

\* a create_record that inserts over whatever is there
create_record_overwriting(recs, id, min_write_ts) ==
    [records |-> MapPut(recs, id, RecordHead_new(min_write_ts)), result |-> "Ok"]

\* TransactionManager::create_record(record_id), creation_ts being
\* clock_manager.get_min_write_ts(): the store after it and what it returns
create_record(recs, id, min_write_ts) ==
    IF id \in DOMAIN recs
    THEN [records |-> recs, result |-> "System"]
    ELSE [records |-> MapPut(recs, id, RecordHead_new(min_write_ts)), result |-> "Ok"]

\* payloads over the inline size written so far
LargeWritten ==
    Cardinality({<<t, id>> \in TxIds \X RecordIds :
        /\ id \in DOMAIN txs[t].local_writes
        /\ txs[t].local_writes[id].data.len > MAX_INLINE_SIZE})

\* transactions begun and not yet finished by commit
Live == {t \in TxIds : txs[t].state \in {"active", "installing"}}

\* TransactionManager::create_record on an id not yet in the store (ids are
\* created in increasing order: records differ in nothing but their id);
\* min_write_ts is 0: nothing in the engine runs update_min_timestamps
TxCreateRecord(id) ==
    /\ id \notin DOMAIN records
    /\ \A i \in RecordIds : i < id => i \in DOMAIN records
    /\ LET done == create_record(records, id, mgr.min_write_ts)
       IN  /\ records' = done.records
           /\ mgr' = [mgr EXCEPT !.create_result = done.result]
    /\ UNCHANGED <<clocks, issued, panicked, boosts, txs, installs, budget, gc, exec>>

\* TransactionManager::begin_transaction(thread_id); slots are taken in order
TxBegin(t, thread_id, now) ==
    /\ txs[t].state = "free"
    /\ \A u \in TxIds : u < t => txs[u].state # "free"
    /\ Cardinality(Live) < MaxLive
    /\ clocks' = [clocks EXCEPT ![thread_id] = generate_write_timestamp(@, now)]
    /\ issued' = [issued EXCEPT ![thread_id] = Append(@, clocks'[thread_id].last_timestamp)]
    /\ txs' = [txs EXCEPT ![t] =
                  Transaction_new(clocks'[thread_id].last_timestamp, thread_id)]
    /\ UNCHANGED <<panicked, boosts, records, installs, budget, maintenance>>

TxRead(t, id) ==
    /\ txs[t].state = "active"
    /\ budget > 0
    /\ budget' = budget - 1
    /\ LET after == read(txs[t], id) IN
       txs' = [txs EXCEPT ![t] =
                  [after EXCEPT
                     !.observed =
                         IF read_inserts(txs[t], id)
                         THEN @ \cup {<<id, after.result.version[1].wts,
                                        after.result.version[1].data>>}
                         ELSE @,
                     !.read_at =
                         IF read_inserts(txs[t], id) THEN MapPut(@, id, installs) ELSE @]]
    /\ UNCHANGED <<clocks, issued, panicked, boosts, records, installs, maintenance>>

TxWrite(t, id, len) ==
    /\ txs[t].state = "active"
    /\ budget > 0
    /\ budget' = budget - 1
    /\ len > MAX_INLINE_SIZE => LargeWritten < MaxLarge
    /\ LET after == write(txs[t], id, Payload(len, t)) IN
       txs' = [txs EXCEPT ![t] =
                  [after EXCEPT
                     !.written =
                         IF after.result.res = "Ok"
                         THEN MapPut(@, id, Payload(len, t)) ELSE @,
                     !.write_at =
                         IF after.result.res = "Ok" THEN MapPut(@, id, installs) ELSE @]]
    /\ UNCHANGED <<clocks, issued, panicked, boosts, records, installs, maintenance>>

\* a commit that goes on to install whatever validate said
commit_takes_always(tx, res) == tx.write_set

\* self.validate()?; std::mem::take(&mut self.write_set): the write set commit
\* goes on to install, none of it when validate returned an error
commit_takes(tx, res) == IF res = "Ok" THEN tx.write_set ELSE EmptyMap

\* Transaction::commit up to the end of validate; with nothing to install the
\* commit returns here
TxCommit(t) ==
    /\ txs[t].state = "active"
    /\ \E res \in validate(txs[t]) :
          LET taken == commit_takes(txs[t], res) IN
          /\ txs' = [txs EXCEPT ![t] =
                IF DOMAIN taken # {}
                THEN [@ EXCEPT !.state = "installing",
                               !.validated = res,
                               !.pending = taken,
                               !.write_set = EmptyMap]
                ELSE [@ EXCEPT !.state = IF res = "Ok" THEN "committed" ELSE "failed",
                               !.validated = res,
                               !.result = Result("commit", 0, res, <<>>),
                               !.done_at = installs]]
          /\ clocks' = IF res = "Ok" /\ DOMAIN taken = {}
                       THEN [clocks EXCEPT ![txs[t].thread_id] = reset_boost(@)]
                       ELSE clocks
    /\ UNCHANGED <<issued, panicked, boosts, records, installs, budget, maintenance>>

\* one round of commit's loop over the taken write set: version.commit(), then
\* install_version; after the last round reset_boost, and the commit returns
TxInstall(t, id) ==
    /\ txs[t].state = "installing"
    /\ id \in DOMAIN txs[t].pending
    /\ records' = [records EXCEPT ![id] =
                      install_version(@, <<Version_commit(txs[t].pending[id])>>)]
    /\ installs' = installs + 1
    /\ LET left == MapDel(txs[t].pending, id) IN
       /\ txs' = [txs EXCEPT ![t] =
             [@ EXCEPT !.pending = left,
                       !.installed_at = MapPut(@, id, installs'),
                       !.state = IF DOMAIN left # {} THEN @
                                 ELSE IF txs[t].validated = "Ok" THEN "committed"
                                 ELSE "failed",
                       !.result = IF DOMAIN left = {}
                                  THEN Result("commit", 0, txs[t].validated, <<>>) ELSE @,
                       !.done_at = IF DOMAIN left = {} THEN installs' ELSE @]]
       /\ clocks' = IF DOMAIN left = {}
                    THEN [clocks EXCEPT ![txs[t].thread_id] = reset_boost(@)]
                    ELSE clocks
    /\ UNCHANGED <<issued, panicked, boosts, budget, maintenance>>

Next ==
    \/ \E id \in RecordIds : TxCreateRecord(id)
    \/ \E t \in TxIds, thread_id \in Threads, now \in BeginTicks : TxBegin(t, thread_id, now)
    \/ \E t \in TxIds, id \in RecordIds : TxRead(t, id)
    \/ \E t \in TxIds, id \in RecordIds, len \in PayloadLens : TxWrite(t, id, len)
    \/ \E t \in TxIds : TxCommit(t)
    \/ \E t \in TxIds, id \in RecordIds : TxInstall(t, id)

Spec == Init /\ [][Next]_vars

\* The engine after create_record(1) and one transaction of thread 0 that wrote
\* an inline payload to record 1 and committed: a state Spec reaches
\* (SeedReached), from which two more transactions run.
SeedClock == generate_write_timestamp(Clock_new(0), U64Zero)

SeedVersion == Version_new(SeedClock.last_timestamp, Payload(MAX_INLINE_SIZE, 1))

SeedTx ==
    [Transaction_new(SeedClock.last_timestamp, 0) EXCEPT
        !.state = "committed",
        !.validated = "Ok",
        !.begin_at = 0,
        !.local_writes = MapPut(EmptyMap, 1, SeedVersion),
        !.result = Result("commit", 0, "Ok", <<>>),
        !.written = MapPut(EmptyMap, 1, SeedVersion.data),
        !.write_at = MapPut(EmptyMap, 1, 0),
        !.installed_at = MapPut(EmptyMap, 1, 1),
        !.done_at = 1]

SeededState(ops_left) ==
    /\ installs = 1
    /\ clocks = [ClockManager_new EXCEPT ![0] = SeedClock]
    /\ issued = [c \in Threads |-> IF c = 0 THEN <<SeedClock.last_timestamp>> ELSE <<>>]
    /\ panicked = {}
    /\ boosts = 0
    /\ records = MapPut(EmptyMap, 1,
                        install_version(RecordHead_new(U64Zero),
                                        <<Version_commit(SeedVersion)>>))
    /\ txs = [t \in TxIds |-> IF t = 1 THEN SeedTx ELSE FreeTx]
    /\ budget = ops_left
    /\ mgr = [Manager_new EXCEPT !.create_result = "Ok"]
    /\ gc = GarbageCollector_new
    /\ exec = ExecIdle

SeededInit == SeededState(MaxSeededOps)

SpecSeeded == SeededInit /\ [][Next]_vars

\* Spec reaches the seed (with what is left of its own budget)
SeedReached == SeededState(MaxOps - 1)

SeedNotReached == ~SeedReached

\* ------------------------------------------- Transaction::create_record
\* Transaction::create_record(record_id): a RecordHead::new(self.timestamp) is
\* inserted under the id, over the record the map may hold there
TxnCreateRecord(t, id) ==
    /\ txs[t].state = "active"
    /\ budget > 0
    /\ budget' = budget - 1
    /\ records' = MapPut(records, id, RecordHead_new(txs[t].timestamp))
    /\ txs' = [txs EXCEPT ![t] =
                  [@ EXCEPT !.result = Result("create_record", id, "Ok", <<>>)]]
    /\ UNCHANGED <<clocks, issued, panicked, boosts, installs, maintenance>>

CreateNext ==
    \/ Next
    \/ \E t \in TxIds, id \in RecordIds : TxnCreateRecord(t, id)

\* the transactions of the seeded store may also call create_record
CreateInit == SeededState(MaxCreateOps)

SpecCreate == CreateInit /\ [][CreateNext]_vars

\* ------------------------------------------------------ ContentionManager
\* record_commit(thread_id)
record_commit(stats, thread_id) ==
    IF thread_id \in DOMAIN stats.commit_count
    THEN [stats EXCEPT !.commit_count[thread_id] = @ + 1]
    ELSE stats

RECURSIVE SumOver(_, _)
SumOver(f, keys) ==
    IF keys = {} THEN 0
    ELSE LET k == CHOOSE x \in keys : TRUE IN f[k] + SumOver(f, keys \ {k})

\* calculate_throughput: the commits since the last call, and the stats with
\* last_commit_count brought up to commit_count
calculate_throughput(stats) ==
    [ total_commits |-> SumOver([thread_id \in Threads |->
                                    stats.commit_count[thread_id]
                                        - stats.last_commit_count[thread_id]],
                                Threads),
      stats |-> [stats EXCEPT !.last_commit_count = stats.commit_count] ]

saturating_sub(a, b) == IF a > b THEN a - b ELSE 0

\* a hill-climb step that adjusts the backoff with or without history
update_max_backoff_always(cm, current_throughput) ==
    LET current_backoff == cm.max_backoff_time
        throughput_change == current_throughput - cm.last_throughput
        backoff_change == current_backoff - cm.last_backoff
        positive_gradient == backoff_change = 0 \/ throughput_change * backoff_change >= 0
    IN  [cm EXCEPT !.positive_gradient = positive_gradient,
                   !.max_backoff_time =
                       IF positive_gradient
                       THEN current_backoff + DEFAULT_BACKOFF_STEP
                       ELSE saturating_sub(current_backoff, DEFAULT_BACKOFF_STEP),
                   !.last_throughput = current_throughput,
                   !.last_backoff = current_backoff]

\* update_max_backoff, current_throughput being what calculate_throughput
\* returned.  gradient >= 0.0 for the quotient of the two changes: the changes
\* have the same sign or throughput_change is 0 (the backoffs of the runs stay
\* far below u64::MAX, where saturating_add is the sum)
update_max_backoff(cm, current_throughput) ==
    LET current_backoff == cm.max_backoff_time
        throughput_change == current_throughput - cm.last_throughput
        backoff_change == current_backoff - cm.last_backoff
        positive_gradient == backoff_change = 0 \/ throughput_change * backoff_change >= 0
    IN  IF cm.last_throughput > 0
        THEN [cm EXCEPT !.positive_gradient = positive_gradient,
                        !.max_backoff_time =
                            IF positive_gradient
                            THEN current_backoff + DEFAULT_BACKOFF_STEP
                            ELSE saturating_sub(current_backoff, DEFAULT_BACKOFF_STEP),
                        !.last_throughput = current_throughput,
                        !.last_backoff = current_backoff]
        ELSE [cm EXCEPT !.last_throughput = current_throughput,
                        !.last_backoff = current_backoff]

\* backoff(): the sleeps it can make, none when get_max_backoff() is 0
backoff(cm) ==
    IF cm.max_backoff_time > 0
    THEN {[did |-> TRUE, micros |-> d] : d \in 0..cm.max_backoff_time}
    ELSE {NoSleep}

\* ------------------------------------------------------- execute_with_gc
\* errors the caller's closure may return by itself: it is caller code
ClosureErrors ==
    {"ValidationFailed", "NoVisibleVersion", "Conflict", "RecordNotFound",
     "TableNotFound", "InvalidTimestamp", "System", "VersionInstallationFailed"}

\* a loop that never gives up
attempts_never_exceeded(attempts) == FALSE

\* if attempts > MAX_ATTEMPTS
attempts_exceeded(attempts) == attempts > MAX_ATTEMPTS

\* a loop that retries on every error
retried_any_error(res) == res # "Ok"

\* the match arms Err(MaemioError::Conflict): backoff and continue
retried(res) == res = "Conflict"

\* prepare_gc_tracking: (record, wts) of every write set entry whose record is
\* in the store
RECURSIVE gc_info(_, _)
gc_info(write_set, ids) ==
    IF ids = {} THEN <<>>
    ELSE LET id == CHOOSE i \in ids : TRUE
         IN  (IF id \in DOMAIN records THEN <<<<id, write_set[id].wts>>>> ELSE <<>>)
             \o gc_info(write_set, ids \ {id})

\* the loop of commit over the taken write set: version.commit(), then
\* install_version on the record
RECURSIVE install_all(_, _, _)
install_all(recs, write_set, ids) ==
    IF ids = {} THEN recs
    ELSE LET id == CHOOSE i \in ids : TRUE
         IN  install_all([recs EXCEPT ![id] =
                             install_version(@, <<Version_commit(write_set[id])>>)],
                         write_set, ids \ {id})

\* a tracking that appends every entry twice
track_all_twice(g, entries) == [g EXCEPT !.queue = @ \o entries \o entries]

\* GarbageCollector::track_version for each entry
track_all(g, entries) == [g EXCEPT !.queue = @ \o entries]

\* a call of execute_with_gc(thread_id, gc, operation) enters the loop
ExecCall(thread_id) ==
    /\ exec.pc \in {"idle", "returned"}
    /\ exec.calls < MaxExecCalls
    /\ exec' = [ExecIdle EXCEPT !.pc = "loop", !.thread_id = thread_id,
                                !.calls = exec.calls + 1]
    /\ UNCHANGED <<clocks, issued, panicked, boosts, store, mgr, gc>>

\* the head of the loop: count the attempt, give up after MAX_ATTEMPTS,
\* otherwise begin_transaction
ExecLoop(now) ==
    /\ exec.pc = "loop"
    /\ \/ /\ attempts_exceeded(exec.attempts + 1)
          /\ exec' = [exec EXCEPT !.attempts = @ + 1, !.steps = @ + 1,
                                  !.pc = "returned", !.result = "System",
                                  !.last = "none"]
          /\ UNCHANGED <<clocks, issued>>
       \/ /\ ~attempts_exceeded(exec.attempts + 1)
          /\ clocks' = [clocks EXCEPT ![exec.thread_id] =
                           generate_write_timestamp(@, now)]
          /\ issued' = [issued EXCEPT ![exec.thread_id] =
                           Append(@, clocks'[exec.thread_id].last_timestamp)]
          /\ exec' = [exec EXCEPT !.attempts = @ + 1, !.steps = @ + 1,
                                  !.begun = @ + 1, !.pc = "closure",
                                  !.tx = Transaction_new(
                                             clocks'[exec.thread_id].last_timestamp,
                                             exec.thread_id),
                                  !.last = "none"]
    /\ UNCHANGED <<panicked, boosts, store, mgr, gc>>

\* where the loop goes with the error res of the closure or of commit
\* (tx is dropped at the end of the loop body)
exec_after(e, res, slept) ==
    IF retried(res)
    THEN [e EXCEPT !.pc = "loop", !.backoffs = @ + 1, !.conflicts = @ + 1,
                   !.last = res, !.steps = @ + 1, !.tx = FreeTx, !.slept = slept]
    ELSE [e EXCEPT !.pc = "returned", !.result = res, !.last = res,
                   !.steps = @ + 1, !.tx = FreeTx]

\* where the loop goes when the closure has run tx to the state after: to
\* commit if the closure's call succeeded, else as with the call's error
closure_done(e, after, slept) ==
    IF after.result.res = "Ok"
    THEN [e EXCEPT !.tx = after, !.pc = "commit", !.last = "Ok", !.steps = @ + 1]
    ELSE exec_after(e, after.result.res, slept)

\* operation(&mut tx) for a closure |tx| tx.read(id)
ExecClosureRead(id) ==
    /\ exec.pc = "closure"
    /\ \E slept \in backoff(mgr.contention) :
          exec' = closure_done(exec, read(exec.tx, id), slept)
    /\ UNCHANGED <<clocks, issued, panicked, boosts, store, mgr, gc>>

\* operation(&mut tx) for a closure |tx| tx.write(id, data)
ExecClosureWrite(id, len) ==
    /\ exec.pc = "closure"
    /\ \E slept \in backoff(mgr.contention) :
          exec' = closure_done(exec, write(exec.tx, id, Payload(len, 0)), slept)
    /\ UNCHANGED <<clocks, issued, panicked, boosts, store, mgr, gc>>

\* operation(&mut tx) for a closure that returns Err(res) by itself
ExecClosureFail(res) ==
    /\ exec.pc = "closure"
    /\ \E slept \in backoff(mgr.contention) : exec' = exec_after(exec, res, slept)
    /\ UNCHANGED <<clocks, issued, panicked, boosts, store, mgr, gc>>

\* prepare_gc_tracking and tx.commit(): on Ok the versions are installed, then
\* record_commit and track_version for each; on an error nothing is
ExecCommit ==
    /\ exec.pc = "commit"
    /\ \E res \in validate(exec.tx) :
          LET tx == exec.tx
              called == [exec EXCEPT !.commits = @ + 1]
          IN  IF res = "Ok"
              THEN /\ records' = install_all(records, tx.write_set, DOMAIN tx.write_set)
                   /\ installs' = installs + Cardinality(DOMAIN tx.write_set)
                   /\ gc' = track_all(gc, gc_info(tx.write_set, DOMAIN tx.write_set))
                   /\ clocks' = [clocks EXCEPT ![exec.thread_id] = reset_boost(@)]
                   /\ mgr' = [mgr EXCEPT !.thread_stats =
                                  record_commit(@, exec.thread_id)]
                   /\ exec' = [called EXCEPT !.pc = "returned", !.result = "Ok",
                                             !.last = "Ok", !.steps = @ + 1,
                                             !.recorded = @ + 1,
                                             !.tracked = gc_info(tx.write_set,
                                                                 DOMAIN tx.write_set),
                                             !.committed = <<tx>>,
                                             !.tx = FreeTx]
              ELSE /\ \E slept \in backoff(mgr.contention) :
                         exec' = exec_after(called, res, slept)
                   /\ UNCHANGED <<clocks, records, installs, gc, mgr>>
    /\ UNCHANGED <<issued, panicked, boosts, txs, budget>>

\* a whole call execute_with_gc(thread_id, gc, |tx| tx.write(id, data)) of
\* another caller, on a record of the store: its first attempt commits
ExecBlindWrite(thread_id, id, len, now) ==
    /\ id \in DOMAIN records
    /\ budget > 0
    /\ budget' = budget - 1
    /\ thread_id \notin panicked
    /\ clocks' = [clocks EXCEPT ![thread_id] =
                     reset_boost(generate_write_timestamp(@, now))]
    /\ issued' = [issued EXCEPT ![thread_id] =
                     Append(@, clocks'[thread_id].last_timestamp)]
    /\ LET tx == write(Transaction_new(clocks'[thread_id].last_timestamp, thread_id),
                       id, Payload(len, Len(issued'[thread_id])))
       IN  /\ records' = install_all(records, tx.write_set, DOMAIN tx.write_set)
           /\ installs' = installs + 1
           /\ gc' = track_all(gc, gc_info(tx.write_set, DOMAIN tx.write_set))
    /\ mgr' = [mgr EXCEPT !.thread_stats = record_commit(@, thread_id)]
    /\ UNCHANGED <<panicked, boosts, txs, exec>>

ExecStep ==
    \/ \E now \in BeginTicks : ExecLoop(now)
    \/ \E id \in RecordIds : ExecClosureRead(id)
    \/ \E id \in RecordIds, len \in PayloadLens : ExecClosureWrite(id, len)
    \/ \E res \in ClosureErrors : ExecClosureFail(res)
    \/ ExecCommit

ExecNext ==
    \/ \E thread_id \in Threads : ExecCall(thread_id)
    \/ ExecStep
    \/ \E thread_id \in Threads, id \in RecordIds, len \in PayloadLens, now \in BeginTicks :
          ExecBlindWrite(thread_id, id, len, now)

\* the calls are made on the seeded store, next to MaxBlindWrites other calls
ExecInit == SeededState(MaxBlindWrites)

SpecExecute == ExecInit /\ [][ExecNext]_vars

\* ------------------------------------------------------ GarbageCollector
\* the least of a set of u64
U64Min(set) == CHOOSE m \in set : \A x \in set : U64Le(m, x)

\* RecordHead::try_gc_lock: gc_lock.try_lock().is_some().  The guard is dropped
\* before the call returns and the passes over one queue are serialised by the
\* queue's mutex, so the lock is found free
try_gc_lock(r) == ~r.gc_lock

update_min_wts(r, ts) == [r EXCEPT !.min_wts = ts]

\* the first loop of collect_record_versions: a Version::new copy of every
\* version of the chain with wts >= min_rts, in the chain's order
RECURSIVE kept_versions(_, _)
kept_versions(chain, min_rts) ==
    IF chain = <<>> THEN <<>>
    ELSE (IF U64Le(min_rts, chain[1].wts)
          THEN <<Version_new(chain[1].wts, chain[1].data)>> ELSE <<>>)
         \o kept_versions(Tail(chain), min_rts)

\* a collector that puts the rebuilt chain in the place of version_list
collect_record_versions_replacing(r, min_rts) ==
    [update_min_wts(r, min_rts) EXCEPT
        !.version_list = kept_versions(r.version_list, min_rts)]

\* collect_record_versions: the chain is rebuilt from get_current_version(),
\* and its head is handed to install_version
collect_record_versions(r, min_rts) ==
    LET marked == update_min_wts(r, min_rts)
        new_chain == kept_versions(r.version_list, min_rts)
    IN  IF new_chain = <<>> THEN marked ELSE install_version(marked, new_chain)

\* collect_garbage over a queue: the store after the pass and the entries that
\* remain queued
RECURSIVE collect_garbage(_, _, _)
collect_garbage(queue, recs, min_rts) ==
    IF queue = <<>> THEN [records |-> recs, remaining |-> <<>>]
    ELSE LET record == queue[1][1]
             wts == queue[1][2]
         IN  IF U64Le(min_rts, wts) \/ ~try_gc_lock(recs[record])
             THEN LET rest == collect_garbage(Tail(queue), recs, min_rts)
                  IN  [rest EXCEPT !.remaining = <<queue[1]>> \o @]
             ELSE collect_garbage(Tail(queue),
                                  [recs EXCEPT ![record] =
                                      collect_record_versions(@, min_rts)],
                                  min_rts)

\* TransactionManager::create_record(id), whether or not the id is in the store
CreateRecord(id) ==
    /\ \A i \in RecordIds : i < id => i \in DOMAIN records
    /\ LET done == create_record(records, id, mgr.min_write_ts)
       IN  /\ records' = done.records
           /\ mgr' = [mgr EXCEPT !.create_result = done.result]
    /\ UNCHANGED <<clocks, issued, panicked, boosts, txs, installs, budget, gc, exec>>

\* ClockManager::update_min_timestamps
UpdateMinTimestamps ==
    /\ mgr' = [mgr EXCEPT
                  !.min_write_ts = U64Min({clocks[c].last_timestamp : c \in Threads}),
                  !.min_read_ts = U64Min({clocks[c].read_timestamp : c \in Threads})]
    /\ UNCHANGED <<clocks, issued, panicked, boosts, store, gc, exec>>

\* Clock::generate_read_timestamp(min_write_ts) on the clock of thread_id, with
\* the manager's min_write_ts
ClockGenerateRead(thread_id) ==
    /\ clocks' = [clocks EXCEPT ![thread_id] =
                     generate_read_timestamp(@, mgr.min_write_ts)]
    /\ UNCHANGED <<issued, panicked, boosts, store, maintenance>>

\* a call of collect_garbage on the collector the transactions track on
GcCollect ==
    /\ gc.passes < MaxPasses
    /\ LET done == collect_garbage(gc.queue, records, mgr.min_read_ts)
       IN  /\ records' = done.records
           /\ gc' = [gc EXCEPT !.queue = done.remaining, !.passes = @ + 1]
    /\ UNCHANGED <<clocks, issued, panicked, boosts, txs, installs, budget, mgr, exec>>

\* start_collection: the thread gets self.clone(), whose queue is a new
\* VecDeque
StartCollection ==
    /\ ~gc.started
    /\ gc' = [gc EXCEPT !.started = TRUE, !.thread_queue = <<>>, !.asleep = FALSE]
    /\ UNCHANGED <<clocks, issued, panicked, boosts, store, mgr, exec>>

\* the collector thread: gc.collect_garbage() on its own queue, then to sleep
CollectorPass ==
    /\ gc.started
    /\ ~gc.asleep
    /\ LET done == collect_garbage(gc.thread_queue, records, mgr.min_read_ts)
       IN  /\ records' = done.records
           /\ gc' = [gc EXCEPT
                        !.thread_queue = done.remaining,
                        !.examined = @ \cup {gc.thread_queue[i] :
                                                i \in 1..Len(gc.thread_queue)},
                        !.asleep = TRUE]
    /\ UNCHANGED <<clocks, issued, panicked, boosts, txs, installs, budget, mgr, exec>>

\* the collector thread: thread::sleep(gc_interval) returns
CollectorWake ==
    /\ gc.started
    /\ gc.asleep
    /\ gc' = [gc EXCEPT !.asleep = FALSE]
    /\ UNCHANGED <<clocks, issued, panicked, boosts, store, mgr, exec>>

GcNext ==
    \/ \E id \in RecordIds : CreateRecord(id)
    \/ \E thread_id \in Threads, id \in RecordIds, len \in PayloadLens, now \in BeginTicks :
          ExecBlindWrite(thread_id, id, len, now)
    \/ UpdateMinTimestamps
    \/ \E thread_id \in Threads : ClockGenerateRead(thread_id)
    \/ GcCollect
    \/ StartCollection
    \/ CollectorPass
    \/ CollectorWake

\* the collector works on the seeded store, after MaxGcWrites tracked writes
GcInit == SeededState(MaxGcWrites)

SpecGC == GcInit /\ [][GcNext]_vars

\* the collector thread is scheduled again and again
SpecGCLive == SpecGC /\ WF_vars(CollectorPass) /\ WF_vars(CollectorWake)

\* ------------------------------------------- collect_garbage step by step
\* let min_rts = get_min_read_ts(); let mut queue = self.queue.lock();
\* let mut remaining = VecDeque::new().  busy are the positions of the entries
\* whose record's lock was found held, start the queue the pass found
pass_begin(g, min_rts) ==
    [g EXCEPT !.pass = <<[min_rts    |-> min_rts,
                          remaining  |-> <<>>,
                          rebuilding |-> <<>>,
                          start      |-> g.queue,
                          busy       |-> {}]>>,
              !.passes = @ + 1]

\* a round that keeps every entry it pops
pass_pop_keeping(g, recs) ==
    [g EXCEPT !.queue = Tail(@),
              !.pass[1].remaining = Append(@, g.queue[1])]

\* one round of while let Some((record, wts)) = queue.pop_front(), up to the
\* call of collect_record_versions
pass_pop(g, recs) ==
    LET record == g.queue[1][1]
        wts == g.queue[1][2]
        popped == [g EXCEPT !.queue = Tail(@)]
    IN  IF U64Le(g.pass[1].min_rts, wts)
        THEN [popped EXCEPT !.pass[1].remaining = Append(@, g.queue[1])]
        ELSE IF ~try_gc_lock(recs[record])
        THEN [popped EXCEPT !.pass[1].remaining = Append(@, g.queue[1]),
                            !.pass[1].busy = @ \cup {Len(g.pass[1].start) - Len(g.queue) + 1}]
        ELSE [popped EXCEPT !.pass[1].rebuilding = <<record>>]

\* *queue = remaining; the guard of the queue is dropped
\* a swap that puts back the queue the pass found
pass_end_restoring(g) ==
    [g EXCEPT !.queue = g.pass[1].start, !.pass = <<>>, !.ended = g.pass]

\* *queue = remaining; the guard of the queue is dropped.  ended keeps what the
\* pass was
pass_end(g) ==
    [g EXCEPT !.queue = g.pass[1].remaining, !.pass = <<>>, !.ended = g.pass]

GcPassBegin ==
    /\ gc.pass = <<>>
    /\ gc.waiting = <<>>
    /\ gc.passes < MaxPasses
    /\ gc' = pass_begin(gc, mgr.min_read_ts)
    /\ UNCHANGED <<clocks, issued, panicked, boosts, store, mgr, exec>>

GcPassPop ==
    /\ gc.pass # <<>>
    /\ gc.pass[1].rebuilding = <<>>
    /\ gc.queue # <<>>
    /\ gc' = pass_pop(gc, records)
    /\ UNCHANGED <<clocks, issued, panicked, boosts, store, mgr, exec>>

\* self.collect_record_versions(&record, min_rts) of the pass
GcPassRebuild ==
    /\ gc.pass # <<>>
    /\ gc.pass[1].rebuilding # <<>>
    /\ records' = [records EXCEPT ![gc.pass[1].rebuilding[1]] =
                      collect_record_versions(@, gc.pass[1].min_rts)]
    /\ gc' = [gc EXCEPT !.pass[1].rebuilding = <<>>]
    /\ UNCHANGED <<clocks, issued, panicked, boosts, txs, installs, budget, mgr, exec>>

GcPassEnd ==
    /\ gc.pass # <<>>
    /\ gc.pass[1].rebuilding = <<>>
    /\ gc.queue = <<>>
    /\ gc' = pass_end(gc)
    /\ UNCHANGED <<clocks, issued, panicked, boosts, store, mgr, exec>>

\* a call of execute_with_gc as in ExecBlindWrite while a pass holds the
\* queue's mutex: it commits and waits in track_version
ExecBlindWriteWaiting(thread_id, id, len, now) ==
    /\ gc.pass # <<>>
    /\ id \in DOMAIN records
    /\ budget > 0
    /\ budget' = budget - 1
    /\ thread_id \notin panicked
    /\ clocks' = [clocks EXCEPT ![thread_id] =
                     reset_boost(generate_write_timestamp(@, now))]
    /\ issued' = [issued EXCEPT ![thread_id] =
                     Append(@, clocks'[thread_id].last_timestamp)]
    /\ LET tx == write(Transaction_new(clocks'[thread_id].last_timestamp, thread_id),
                       id, Payload(len, Len(issued'[thread_id])))
       IN  /\ records' = install_all(records, tx.write_set, DOMAIN tx.write_set)
           /\ installs' = installs + 1
           /\ gc' = [gc EXCEPT !.waiting = @ \o gc_info(tx.write_set, DOMAIN tx.write_set)]
    /\ mgr' = [mgr EXCEPT !.thread_stats = record_commit(@, thread_id)]
    /\ UNCHANGED <<panicked, boosts, txs, exec>>

\* the waiting track_version calls get the mutex
TrackWaiting ==
    /\ gc.pass = <<>>
    /\ gc.waiting # <<>>
    /\ gc' = [track_all(gc, gc.waiting) EXCEPT !.waiting = <<>>]
    /\ UNCHANGED <<clocks, issued, panicked, boosts, store, mgr, exec>>

\* The pass of another GarbageCollector made on the same ClockManager (new,
\* track_version and collect_garbage are public and execute_with_gc takes the
\* collector as an argument), at an entry of record id below the watermark:
\* gc_lock.try_lock() gets the lock
OtherTryLock(id) ==
    /\ gc.other.pc = "idle"
    /\ gc.other.calls < MaxOtherLocks
    /\ id \in DOMAIN records
    /\ \E v \in {records[id].inline_version[i] : i \in 1..Len(records[id].inline_version)}
                  \cup {records[id].version_list[i] : i \in 1..Len(records[id].version_list)} :
          U64Lt(v.wts, mgr.min_read_ts)
    /\ try_gc_lock(records[id])
    /\ records' = [records EXCEPT ![id].gc_lock = TRUE]
    /\ gc' = [gc EXCEPT !.other = [pc |-> "locked", record |-> id, calls |-> @.calls + 1]]
    /\ UNCHANGED <<clocks, issued, panicked, boosts, txs, installs, budget, mgr, exec>>

\* .is_some() is taken and the guard dropped: try_gc_lock returns true
OtherUnlock ==
    /\ gc.other.pc = "locked"
    /\ records' = [records EXCEPT ![gc.other.record].gc_lock = FALSE]
    /\ gc' = [gc EXCEPT !.other.pc = "rebuilding"]
    /\ UNCHANGED <<clocks, issued, panicked, boosts, txs, installs, budget, mgr, exec>>

\* collect_record_versions of the other pass
OtherRebuild ==
    /\ gc.other.pc = "rebuilding"
    /\ records' = [records EXCEPT ![gc.other.record] =
                      collect_record_versions(@, mgr.min_read_ts)]
    /\ gc' = [gc EXCEPT !.other.pc = "idle"]
    /\ UNCHANGED <<clocks, issued, panicked, boosts, txs, installs, budget, mgr, exec>>

GcLockNext ==
    \/ \E thread_id \in Threads, id \in RecordIds, len \in PayloadLens, now \in BeginTicks :
          gc.pass = <<>> /\ gc.waiting = <<>> /\ ExecBlindWrite(thread_id, id, len, now)
    \/ \E thread_id \in Threads, id \in RecordIds, len \in PayloadLens, now \in BeginTicks :
          ExecBlindWriteWaiting(thread_id, id, len, now)
    \/ UpdateMinTimestamps
    \/ \E thread_id \in Threads : ClockGenerateRead(thread_id)
    \/ GcPassBegin
    \/ GcPassPop
    \/ GcPassRebuild
    \/ GcPassEnd
    \/ TrackWaiting
    \/ \E id \in RecordIds : OtherTryLock(id)
    \/ OtherUnlock
    \/ OtherRebuild

SpecGcLock == GcInit /\ [][GcLockNext]_vars

\* ------------------------------------------------------------ watermark
\* the engine next to calls of update_min_timestamps
WatermarkNext ==
    \/ Next
    \/ UpdateMinTimestamps

SpecWatermark == Init /\ [][WatermarkNext]_vars

\* --------------------------------------------------------- construction
\* the values of a u8
U8Values == 0..(ByteBase - 1)

\* thread counts around the limit, a large one and the largest usize
ThreadCounts ==
    {U64(n) : n \in {0, 1, 2, MAX_THREAD_ID - 1, MAX_THREAD_ID, MAX_THREAD_ID + 1,
                     ByteBase + 1, 2 * ByteBase}}
    \cup {U64MaxValue}

\* a call of Clock::new(thread_id)
ClockNew(thread_id) ==
    /\ mgr' = [mgr EXCEPT !.clock_made =
                  <<[thread_id |-> thread_id, made |-> Clock_new_result(thread_id)]>>]
    /\ UNCHANGED <<clocks, issued, panicked, boosts, store, gc, exec>>

\* a call of ClockManager::new(thread_count, _)
ClockManagerNew(thread_count) ==
    /\ mgr' = [mgr EXCEPT !.manager_made =
                  <<[thread_count |-> thread_count,
                     made |-> ClockManager_new_result(thread_count)]>>]
    /\ UNCHANGED <<clocks, issued, panicked, boosts, store, gc, exec>>

NewNext ==
    \/ \E thread_id \in U8Values : ClockNew(thread_id)
    \/ \E thread_count \in ThreadCounts : ClockManagerNew(thread_count)

SpecNew == Init /\ [][NewNext]_vars

\* ------------------------------------------------- hill climbing thread
\* start_hill_climbing (TransactionManager::start_contention_management): the
\* thread gets self.clone(), whose atomics are new ones holding the values of
\* the moment; thread_stats is the shared Vec
StartHillClimbing ==
    /\ mgr.climber = <<>>
    /\ mgr' = [mgr EXCEPT !.climber = <<mgr.contention>>]
    /\ UNCHANGED <<clocks, issued, panicked, boosts, store, gc, exec>>

\* the thread's loop body: sleep(hill_climb_interval), then
\* manager.update_max_backoff() on the thread's ContentionManager
HillClimbStep ==
    /\ mgr.climber # <<>>
    /\ mgr.climb_steps < MaxClimbSteps
    /\ LET counted == calculate_throughput(mgr.thread_stats)
       IN  mgr' = [mgr EXCEPT
                      !.thread_stats = counted.stats,
                      !.climber = <<update_max_backoff(mgr.climber[1],
                                                       counted.total_commits)>>,
                      !.climb_steps = @ + 1]
    /\ UNCHANGED <<clocks, issued, panicked, boosts, store, gc, exec>>

\* backoff() on the ContentionManager of the TransactionManager, as the
\* Conflict arms of execute_with_gc call it
Backoff ==
    /\ mgr.backoff_calls < MaxBackoffCalls
    /\ \E slept \in backoff(mgr.contention) :
          mgr' = [mgr EXCEPT !.slept = slept, !.backoff_calls = @ + 1]
    /\ UNCHANGED <<clocks, issued, panicked, boosts, store, gc, exec>>

ContentionNext ==
    \/ \E thread_id \in Threads, id \in RecordIds, len \in PayloadLens, now \in BeginTicks :
          ExecBlindWrite(thread_id, id, len, now)
    \/ StartHillClimbing
    \/ HillClimbStep
    \/ Backoff

\* the workers commit MaxContentionWrites writes on the seeded store
ContentionInit == SeededState(MaxContentionWrites)

SpecContention == ContentionInit /\ [][ContentionNext]_vars

\* --------------------------------------------- update_max_backoff called
\* record_commit(thread_id) on the ContentionManager of the TransactionManager
RecordCommit(thread_id) ==
    /\ SumOver(mgr.thread_stats.commit_count, Threads) < MaxRecordCommits
    /\ mgr' = [mgr EXCEPT !.thread_stats = record_commit(@, thread_id)]
    /\ UNCHANGED <<clocks, issued, panicked, boosts, store, gc, exec>>

\* update_max_backoff() on that manager, as tests::test_hill_climbing calls it
UpdateMaxBackoff ==
    /\ mgr.climb_steps < MaxDirectSteps
    /\ LET counted == calculate_throughput(mgr.thread_stats)
       IN  mgr' = [mgr EXCEPT
                      !.thread_stats = counted.stats,
                      !.contention = update_max_backoff(@, counted.total_commits),
                      !.climb_steps = @ + 1]
    /\ UNCHANGED <<clocks, issued, panicked, boosts, store, gc, exec>>

ClimbNext ==
    \/ \E thread_id \in Threads : RecordCommit(thread_id)
    \/ UpdateMaxBackoff

SpecClimb == Init /\ [][ClimbNext]_vars

\* ---------------------------------------------------- Version::update_rts
\* the timestamps the callers pass
RtsTimestamps == {U64(1), U64(2), U64(3)}

\* if ts > current { self.rts.store(ts, Ordering::Release) }
update_rts_store(v, ts, current) ==
    IF U64Lt(current, ts) THEN [v EXCEPT !.rts = ts] ELSE v

\* caller c in update_rts(ts): let current = self.rts.load(Ordering::Relaxed)
UpdateRtsLoad(c, ts) ==
    /\ mgr.rts_calls[c].pc = "idle"
    /\ mgr.rts_started < MaxRtsCalls
    /\ mgr' = [mgr EXCEPT
                  !.rts_calls[c] = [pc |-> "loaded", ts |-> ts, current |-> mgr.rts_version.rts],
                  !.rts_started = @ + 1]
    /\ UNCHANGED <<clocks, issued, panicked, boosts, store, gc, exec>>

\* caller c: the comparison and the store; update_rts returns
UpdateRtsStore(c) ==
    /\ mgr.rts_calls[c].pc = "loaded"
    /\ mgr' = [mgr EXCEPT
                  !.rts_version = update_rts_store(@, mgr.rts_calls[c].ts,
                                                   mgr.rts_calls[c].current),
                  !.rts_calls[c].pc = "idle",
                  !.rts_args = @ \cup {mgr.rts_calls[c].ts}]
    /\ UNCHANGED <<clocks, issued, panicked, boosts, store, gc, exec>>

RtsNext ==
    \/ \E c \in Threads, ts \in RtsTimestamps : UpdateRtsLoad(c, ts)
    \/ \E c \in Threads : UpdateRtsStore(c)

SpecRts == Init /\ [][RtsNext]_vars

\* --------------------------------------------------- Version::wait_pending
Version_abort(v) == [v EXCEPT !.status = VERSION_STATUS_ABORTED]

\* a result that is true for every status but PENDING
wait_pending_result_settled(status) == status # VERSION_STATUS_PENDING

\* status == super::VERSION_STATUS_COMMITTED
wait_pending_result(status) == status = VERSION_STATUS_COMMITTED

\* the version waited on: the one in the inline slot of wait_record
Waited == mgr.wait_record.inline_version[1]

\* the record is filled: a committed version with wts 1, then a version with
\* wts 2 that is still PENDING
WaitInstall ==
    /\ mgr.wait_steps < 2
    /\ mgr' = [mgr EXCEPT
                  !.wait_record =
                      IF mgr.wait_steps = 0
                      THEN install_version(@, <<Version_commit(
                               Version_new(U64(1), Payload(MAX_INLINE_SIZE, 1)))>>)
                      ELSE install_version(@, <<Version_new(U64(2),
                                                          Payload(MAX_INLINE_SIZE, 2))>>),
                  !.wait_steps = @ + 1]
    /\ UNCHANGED <<clocks, issued, panicked, boosts, store, gc, exec>>

\* the writer of the waited version: commit()
WaitVersionCommit ==
    /\ mgr.wait_steps = 2
    /\ Waited.status = VERSION_STATUS_PENDING
    /\ mgr' = [mgr EXCEPT !.wait_record.inline_version[1] = Version_commit(@)]
    /\ UNCHANGED <<clocks, issued, panicked, boosts, store, gc, exec>>

\* the writer of the waited version: abort()
WaitVersionAbort ==
    /\ mgr.wait_steps = 2
    /\ Waited.status = VERSION_STATUS_PENDING
    /\ mgr' = [mgr EXCEPT !.wait_record.inline_version[1] = Version_abort(@)]
    /\ UNCHANGED <<clocks, issued, panicked, boosts, store, gc, exec>>

\* wait_pending(): let mut status = self.status.load(); let mut attempts = 0
WaitPendingCall ==
    /\ mgr.wait_steps = 2
    /\ mgr.wait_call.pc = "idle"
    /\ mgr' = [mgr EXCEPT !.wait_call = [pc |-> "loop", status |-> Waited.status,
                                         attempts |-> 0, result |-> FALSE]]
    /\ UNCHANGED <<clocks, issued, panicked, boosts, store, gc, exec>>

\* a round of the while loop: yield_now(), load, attempts += 1
WaitPendingYield ==
    /\ mgr.wait_call.pc = "loop"
    /\ mgr.wait_call.status = VERSION_STATUS_PENDING
    /\ mgr.wait_call.attempts < WAIT_MAX_ATTEMPTS
    /\ mgr' = [mgr EXCEPT !.wait_call.status = Waited.status,
                          !.wait_call.attempts = @ + 1]
    /\ UNCHANGED <<clocks, issued, panicked, boosts, store, gc, exec>>

\* the loop is left and wait_pending returns
WaitPendingReturn ==
    /\ mgr.wait_call.pc = "loop"
    /\ ~(/\ mgr.wait_call.status = VERSION_STATUS_PENDING
         /\ mgr.wait_call.attempts < WAIT_MAX_ATTEMPTS)
    /\ mgr' = [mgr EXCEPT !.wait_call.pc = "returned",
                          !.wait_call.result = wait_pending_result(mgr.wait_call.status)]
    /\ UNCHANGED <<clocks, issued, panicked, boosts, store, gc, exec>>

\* a reader: find_visible_version(ts) on the record
WaitRead(ts) ==
    /\ mgr.wait_steps = 2
    /\ mgr' = [mgr EXCEPT !.wait_found =
                  [asked |-> TRUE, ts |-> ts,
                   version |-> find_visible_version(mgr.wait_record, ts)]]
    /\ UNCHANGED <<clocks, issued, panicked, boosts, store, gc, exec>>

WaitNext ==
    \/ WaitInstall
    \/ WaitVersionCommit
    \/ WaitVersionAbort
    \/ WaitPendingCall
    \/ WaitPendingYield
    \/ WaitPendingReturn
    \/ \E ts \in {U64(1), U64(2)} : WaitRead(ts)

SpecWait == Init /\ [][WaitNext]_vars

\* ------------------------------------------------- BTreeIndex, HashIndex
\* Vec::insert(i, x), i counted from 0
InsertAt(seq, i, x) == SubSeq(seq, 1, i) \o <<x>> \o SubSeq(seq, i + 1, Len(seq))

\* Vec::remove(i), i counted from 0
RemoveAt(seq, i) == SubSeq(seq, 1, i) \o SubSeq(seq, i + 2, Len(seq))

\* let mut i = len; while i > 0 && key < keys[i - 1] { i -= 1 }
insert_position(keys, key) ==
    LET stops == {j \in 1..Len(keys) : ~(key < keys[j])}
    IN  IF stops = {} THEN 0 ELSE CHOOSE j \in stops : \A k \in stops : k <= j

\* let mut i = 0; while i < keys.len() && key > &keys[i] { i += 1 }
search_position(keys, key) ==
    LET stops == {j \in 1..Len(keys) : ~(key > keys[j])}
    IN  IF stops = {} THEN Len(keys)
        ELSE (CHOOSE j \in stops : \A k \in stops : j <= k) - 1

\* insert_non_full on a leaf: keys.insert(i, key); records.push(record_id)
insert_leaf(node, key, record_id, ts) ==
    [node EXCEPT !.keys = InsertAt(@, insert_position(node.keys, key), key),
                 !.records = Append(@, record_id),
                 !.wts = ts]

\* remove_key on a leaf that holds the key at i
remove_leaf(node, i, ts) ==
    [node EXCEPT !.keys = RemoveAt(@, i), !.records = RemoveAt(@, i), !.wts = ts]

\* search_key on a leaf: <<r>> for Some(r), <<>> for None
search_key(node, key) ==
    LET i == search_position(node.keys, key)
    IN  IF i < Len(node.keys) /\ key = node.keys[i + 1]
        THEN <<node.records[i + 1]>>
        ELSE <<>>

\* HashIndex::insert under the bucket's write lock
hash_insert(h, key, record_id, ts) ==
    [h EXCEPT ![get_bucket_index(key)] =
        [wts |-> ts, map |-> MapPut(@.map, key, record_id)]]

\* HashIndex::get under the bucket's read lock
hash_get(h, key, ts) ==
    LET bucket == h[get_bucket_index(key)]
    IN  IF bucket.wts <= ts /\ key \in DOMAIN bucket.map THEN <<bucket.map[key]>> ELSE <<>>

\* a parking_lot RwLock is not reentrant: a write lock is not granted while a
\* guard of the lock is alive, the caller's own included
LockFree(held, lock) == \A h \in held : h[1] # lock

IndexCallable == mgr.index_call.pc \in {"idle", "returned"}

Logged(index, key, record_id) ==
    [mgr.index_log EXCEPT ![index][key] = Append(@, record_id)]

\* BTreeIndex::insert: let root = self.root.read(); let mut current =
\* root.clone().  With a full root: new_root.split_child(0, ts), which takes
\* let children = self.children.read(), copies the keys, takes self.keys.write()
\* and asks for self.children.write().  Otherwise insert_non_full(current),
\* which on the leaf asks for node.keys.write()
BTreeInsertCall(key, record_id, ts) ==
    /\ IndexCallable
    /\ budget > 0
    /\ budget' = budget - 1
    /\ mgr' = [mgr EXCEPT !.index_call =
          IF Len(mgr.btree.keys) = 2 * MIN_DEGREE - 1
          THEN [IndexIdle EXCEPT
                   !.pc = "split_child", !.op = "insert", !.index = "btree",
                   !.key = key, !.record_id = record_id, !.ts = ts,
                   !.held = {<<"root", "read">>, <<"new_root.children", "read">>,
                             <<"child.keys", "read">>, <<"new_root.keys", "write">>},
                   !.wants = <<"new_root.children", "write">>]
          ELSE [IndexIdle EXCEPT
                   !.pc = "insert_non_full", !.op = "insert", !.index = "btree",
                   !.key = key, !.record_id = record_id, !.ts = ts,
                   !.held = {<<"root", "read">>},
                   !.wants = <<"node.keys", "write">>]]
    /\ UNCHANGED <<clocks, issued, panicked, boosts, records, txs, installs, gc, exec>>

\* BTreeIndex::remove: remove_key(root) takes let keys = node.keys.read();
\* with the key in the leaf it asks for node.keys.write(), without it it
\* returns RecordNotFound
BTreeRemoveCall(key, ts) ==
    /\ IndexCallable
    /\ budget > 0
    /\ budget' = budget - 1
    /\ LET i == search_position(mgr.btree.keys, key)
       IN  mgr' = [mgr EXCEPT !.index_call =
              IF i < Len(mgr.btree.keys) /\ key = mgr.btree.keys[i + 1]
              THEN [IndexIdle EXCEPT
                       !.pc = "remove_key", !.op = "remove", !.index = "btree",
                       !.key = key, !.ts = ts,
                       !.held = {<<"node.keys", "read">>},
                       !.wants = <<"node.keys", "write">>]
              ELSE [IndexIdle EXCEPT
                       !.pc = "returned", !.op = "remove", !.index = "btree",
                       !.key = key, !.ts = ts, !.res = "RecordNotFound"]]
    /\ UNCHANGED <<clocks, issued, panicked, boosts, records, txs, installs, gc, exec>>

\* the write lock the call waits for is granted and the call runs to its
\* return, where its guards are dropped
BTreeLockGranted ==
    /\ mgr.index_call.wants # <<>>
    /\ LockFree(mgr.index_call.held, mgr.index_call.wants[1])
    /\ LET call == mgr.index_call
           done == [call EXCEPT !.pc = "returned", !.held = {}, !.wants = <<>>, !.res = "Ok"]
       IN  IF call.pc = "insert_non_full"
           THEN mgr' = [mgr EXCEPT
                           !.btree = insert_leaf(@, call.key, call.record_id, call.ts),
                           !.index_call = done,
                           !.index_log = Logged("btree", call.key, call.record_id)]
           ELSE IF call.pc = "remove_key"
           THEN mgr' = [mgr EXCEPT
                           !.btree = remove_leaf(@, search_position(mgr.btree.keys, call.key),
                                                 call.ts),
                           !.index_call = done]
           ELSE mgr' = [mgr EXCEPT !.index_call.pc = "split_parent",
                                   !.index_call.wants = <<>>]
    /\ UNCHANGED <<clocks, issued, panicked, boosts, store, gc, exec>>

\* BTreeIndex::get: read guards only
BTreeGet(key, ts) ==
    /\ IndexCallable
    /\ mgr' = [mgr EXCEPT !.index_call =
          [IndexIdle EXCEPT !.pc = "returned", !.op = "get", !.index = "btree",
                            !.key = key, !.ts = ts, !.res = "Ok",
                            !.value = search_key(mgr.btree, key)]]
    /\ UNCHANGED <<clocks, issued, panicked, boosts, store, gc, exec>>

HashInsert(key, record_id, ts) ==
    /\ IndexCallable
    /\ budget > 0
    /\ budget' = budget - 1
    /\ mgr' = [mgr EXCEPT
          !.hash = hash_insert(@, key, record_id, ts),
          !.index_call =
              [IndexIdle EXCEPT !.pc = "returned", !.op = "insert", !.index = "hash",
                                !.key = key, !.record_id = record_id, !.ts = ts,
                                !.res = "Ok"],
          !.index_log = Logged("hash", key, record_id)]
    /\ UNCHANGED <<clocks, issued, panicked, boosts, records, txs, installs, gc, exec>>

HashGet(key, ts) ==
    /\ IndexCallable
    /\ mgr' = [mgr EXCEPT !.index_call =
          [IndexIdle EXCEPT !.pc = "returned", !.op = "get", !.index = "hash",
                            !.key = key, !.ts = ts, !.res = "Ok",
                            !.value = hash_get(mgr.hash, key, ts)]]
    /\ UNCHANGED <<clocks, issued, panicked, boosts, store, gc, exec>>

\* record ids and timestamps the callers pass
IndexRecordIds == {100, 200}

IndexTimes == {1, 2}

\* inserts and lookups on both indexes
IndexNext ==
    \/ \E key \in IndexKeys, r \in IndexRecordIds, ts \in IndexTimes :
          BTreeInsertCall(key, r, ts)
    \/ BTreeLockGranted
    \/ \E key \in IndexKeys, ts \in IndexTimes : BTreeGet(key, ts)
    \/ \E key \in IndexKeys, r \in IndexRecordIds, ts \in IndexTimes :
          HashInsert(key, r, ts)
    \/ \E key \in IndexKeys, ts \in IndexTimes : HashGet(key, ts)

\* the state after construction, with ops_left calls to make
FreshState(ops_left) ==
    /\ clocks = ClockManager_new
    /\ issued = [c \in Threads |-> <<>>]
    /\ panicked = {}
    /\ boosts = 0
    /\ records = EmptyMap
    /\ txs = [t \in TxIds |-> FreeTx]
    /\ installs = 0
    /\ budget = ops_left
    /\ mgr = Manager_new
    /\ gc = GarbageCollector_new
    /\ exec = ExecIdle

IndexInit == FreshState(MaxIndexOps)

SpecIndex == IndexInit /\ [][IndexNext]_vars

\* inserts and removes on the B-tree until its root is full
TreeNext ==
    \/ \E key \in {1, 2} : BTreeInsertCall(key, 100, 1)
    \/ \E key \in {1, 2} : BTreeRemoveCall(key, 1)
    \/ BTreeLockGranted

TreeInit == FreshState(MaxTreeOps)

SpecTree == TreeInit /\ [][TreeNext]_vars

\* ----------------------------------------------------------------- claims
Committed == {t \in TxIds : txs[t].state = "committed"}

Finished == {t \in TxIds : txs[t].state \in {"committed", "failed"}}

\* ids t passed to a successful write
Wrote(t) == DOMAIN txs[t].written

\* commit of w had returned when t began
Precedes(w, t) == w \in Finished /\ txs[w].done_at <= txs[t].begin_at

\* t's reads from the store are the latest writes before it in the order rank
ReadsLatest(rank, t) ==
    \A o \in txs[t].observed :
        LET before == {u \in Committed : rank[u] < rank[t] /\ o[1] \in Wrote(u)}
        IN  /\ before # {}
            /\ LET last == CHOOSE u \in before : \A x \in before : rank[x] <= rank[u]
               IN  txs[last].written[o[1]] = o[3]

\* C1: once every commit has returned, the transactions whose commit succeeded
\* have a serial order in which every read returned the value of the latest
\* preceding committed write to that record (so two transactions that both
\* read and then overwrite the same record never both commit).
C1_Serializable ==
    (\A t \in TxIds : txs[t].state # "installing") =>
        \E rank \in [Committed -> 1..Cardinality(Committed)] :
            /\ \A a, b \in Committed : a # b => rank[a] # rank[b]
            /\ \A t \in Committed : ReadsLatest(rank, t)

\* C2: right after commit returned Ok for a transaction at timestamp T (the
\* store not touched since), find_visible_version(T) on every record of its
\* write set returns a version with wts = T carrying the bytes written,
\* whatever the size of the payload and the state of the inline slot.
C2_CommittedWriteVisible ==
    \A t \in Committed :
        txs[t].done_at = installs =>
            \A id \in Wrote(t) :
                LET visible == find_visible_version(records[id], txs[t].timestamp)
                IN  /\ visible # <<>>
                    /\ visible[1].wts = txs[t].timestamp
                    /\ visible[1].data = txs[t].written[id]

\* every transaction that wrote id has committed, and no two of them overlapped
WrittenInTurn(id) ==
    LET writers == {w \in TxIds : id \in Wrote(w)}
    IN  /\ writers # {}
        /\ writers \subseteq Committed
        /\ \A a, b \in writers : a # b => Precedes(a, b) \/ Precedes(b, a)

\* the writer of id that committed last
LastWriter(id) ==
    CHOOSE w \in TxIds :
        /\ id \in Wrote(w)
        /\ \A a \in TxIds : (id \in Wrote(a) /\ a # w) => Precedes(a, w)

\* C3: when the transactions that wrote a record committed one after another,
\* a transaction that began after the last of these commits returned reads
\* the bytes of the last committed write, whatever threads they ran on.
C3_LaterReaderSeesLastWrite ==
    \A t \in TxIds, id \in RecordIds :
        ( /\ txs[t].state = "active"
          /\ txs[t].result.op = "read"
          /\ txs[t].result.id = id
          /\ WrittenInTurn(id)
          /\ \A w \in TxIds : id \in Wrote(w) => Precedes(w, t) )
        => /\ txs[t].result.res = "Ok"
           /\ txs[t].result.version[1].data = txs[LastWriter(id)].written[id]

\* the versions a record holds, inline and on version_list
Versions(r) == {r.inline_version[i] : i \in 1..Len(r.inline_version)}
               \cup {r.version_list[i] : i \in 1..Len(r.version_list)}

\* the timestamps find_visible_version is asked about: every one a clock issued
IssuedTimestamps == UNION {{issued[c][i] : i \in 1..Len(issued[c])} : c \in Threads}

\* C4: for every record and timestamp T, the version V that
\* find_visible_version(T) returns has V.wts <= T and is COMMITTED, and the
\* record holds no other COMMITTED version with wts in (V.wts, T].
C4_NewestVisible ==
    \A id \in DOMAIN records, T \in IssuedTimestamps :
        LET visible == find_visible_version(records[id], T)
        IN  visible # <<>> =>
                /\ U64Le(visible[1].wts, T)
                /\ visible[1].status = VERSION_STATUS_COMMITTED
                /\ \A v \in Versions(records[id]) :
                       ~ ( /\ v.status = VERSION_STATUS_COMMITTED
                           /\ U64Lt(visible[1].wts, v.wts)
                           /\ U64Le(v.wts, T) )

\* C5: after a later transaction (begun after the earlier writer's commit
\* returned, with a greater timestamp) overwrote a record and committed,
\* find_visible_version at the earlier writer's timestamp still returns the
\* earlier writer's bytes.
C5_OlderSnapshotSurvives ==
    \A e, l \in Committed, id \in RecordIds :
        ( /\ id \in Wrote(e)
          /\ id \in Wrote(l)
          /\ Precedes(e, l)
          /\ U64Lt(txs[e].timestamp, txs[l].timestamp) )
        => LET visible == find_visible_version(records[id], txs[e].timestamp)
           IN  /\ visible # <<>>
               /\ visible[1].data = txs[e].written[id]

\* the part of C5 about one install: installing a committed version with write
\* timestamp W leaves what find_visible_version(ts) returns for ts < W as it was
C5_InstallKeepsOlderSnapshots ==
    [][\A t \in TxIds, id \in RecordIds :
         TxInstall(t, id) =>
             \A ts \in IssuedTimestamps :
                 U64Lt(ts, txs[t].timestamp) =>
                     find_visible_version(records'[id], ts)
                         = find_visible_version(records[id], ts)]_vars

\* both began before either commit returned
Overlap(a, b) ==
    /\ txs[a].begin_at < txs[b].done_at
    /\ txs[b].begin_at < txs[a].done_at

\* C6: of two transactions with overlapping lifetimes that both wrote the same
\* record and both called commit, one committed and the other got Conflict.
C6_WriteWriteConflict ==
    \A a, b \in Finished :
        ( /\ a # b
          /\ Wrote(a) \cap Wrote(b) # {}
          /\ Overlap(a, b) )
        => \/ a \in Committed /\ txs[b].result.res = "Conflict"
           \/ b \in Committed /\ txs[a].result.res = "Conflict"

\* a read r1 from the store, then b overwrote r1 and its commit returned, then
\* a wrote r2, and a's commit has returned
ReadOverwrittenThenWrote(a, b, r1, r2) ==
    /\ a # b
    /\ r1 # r2
    /\ a \in Finished
    /\ b \in Committed
    /\ r1 \in DOMAIN txs[a].read_at
    /\ r1 \notin Wrote(a)
    /\ r1 \in Wrote(b)
    /\ r2 \in Wrote(a)
    /\ txs[a].read_at[r1] < txs[b].installed_at[r1]
    /\ txs[b].done_at <= txs[a].write_at[r2]

\* C7: when A read record 1, then B overwrote record 1 and committed, then A
\* wrote record 2 and called commit, A's commit returned Conflict, whatever
\* timestamps A and B began with.
C7_ReadWriteConflict ==
    \A a, b \in TxIds, r1, r2 \in RecordIds :
        ReadOverwrittenThenWrote(a, b, r1, r2) => txs[a].result.res = "Conflict"

\* C8: a read(id) after a write(id, d) of the same transaction returns Ok with
\* the bytes d of the most recent such write, whatever the store holds, and
\* leaves the read set as it was.
C8_ReadYourOwnWrites ==
    [][\A t \in TxIds, id \in RecordIds :
         (TxRead(t, id) /\ id \in Wrote(t)) =>
             /\ txs'[t].result.res = "Ok"
             /\ txs'[t].result.version[1].data = txs[t].written[id]
             /\ txs'[t].read_set = txs[t].read_set]_vars

\* a transaction read back the payload it wrote to a record while the record
\* holds a version of another transaction
C8_Witness ==
    \E t \in TxIds, id \in RecordIds :
        /\ txs[t].state = "active"
        /\ id \in Wrote(t)
        /\ txs[t].result = Result("read", id, "Ok", <<txs[t].local_writes[id]>>)
        /\ txs[t].written[id].len > MAX_INLINE_SIZE
        /\ \E v \in Versions(records[id]) : v.wts # txs[t].timestamp


\* C11: execute_with_gc ends whenever the closure returns: a call takes at
\* most three steps per attempt, begins at most MAX_ATTEMPTS transactions, is
\* at no point of the loop left without a next step (the head of the loop
\* gives up or has a clock to begin with), and after MAX_ATTEMPTS attempts
\* that ended in Conflict it returns a System error.
C11_ExecuteTerminates ==
    /\ exec.begun <= MAX_ATTEMPTS
    /\ exec.steps <= 3 * MAX_ATTEMPTS + 1
    /\ exec.pc = "loop" =>
           attempts_exceeded(exec.attempts + 1) \/ exec.thread_id \in DOMAIN clocks
    /\ exec.pc = "closure" => \A res \in ClosureErrors : ENABLED ExecClosureFail(res)
    /\ exec.pc = "commit" => validate(exec.tx) # {}
    /\ (exec.pc = "returned" /\ exec.conflicts = MAX_ATTEMPTS) => exec.result = "System"

\* a call gave up after MAX_ATTEMPTS attempts that all ended in Conflict, some
\* from the closure and some from commit
C11_Witness ==
    /\ exec.pc = "returned"
    /\ exec.result = "System"
    /\ exec.conflicts = MAX_ATTEMPTS
    /\ exec.commits > 0
    /\ exec.commits < MAX_ATTEMPTS

StoredBy(t) ==
    UNION {{v \in Versions(records[id]) : v.data.tag = t /\ v.wts = txs[t].timestamp} :
              id \in DOMAIN records}

\* C13: a transaction has no effect on the store unless its commit passes
\* validation: a step of read, of write or of commit's validate leaves every
\* RecordHead as it was, and the store holds a version written by a
\* transaction only if that transaction's validate returned Ok, so nothing of
\* a transaction that was dropped or failed validation
C13_NoEffectWithoutValidation ==
    [][ /\ \A t \in TxIds :
              (txs[t].state = "active" /\ txs'[t] # txs[t]) => records' = records
        /\ \A t \in TxIds :
              (txs'[t].state # "free" /\ txs'[t].validated # "Ok") => StoredBy(t)' = {}
      ]_vars

\* a step that is a pass of collect_garbage, by a call or by the thread
GcPassStep == gc'.passes # gc.passes \/ (gc'.asleep /\ ~gc.asleep)

\* the timestamps the passes are probed with
ProbeTimestamps == IssuedTimestamps \cup {mgr.min_read_ts, U64MaxValue}

\* what a lookup returns, as the pair (wts, data)
Seen(found) == IF found = <<>> THEN <<>> ELSE <<found[1].wts, found[1].data>>

\* C14: a collection pass with watermark W = min_read_ts removes no version
\* with wts >= W, and for every timestamp ts >= W find_visible_version(ts)
\* returns the same wts and data after the pass as before it
C14_GcSafety ==
    [][ GcPassStep =>
          \A id \in DOMAIN records :
              /\ \A v \in Versions(records[id]) :
                    U64Le(mgr.min_read_ts, v.wts) => v \in Versions(records'[id])
              /\ \A ts \in ProbeTimestamps :
                    U64Le(mgr.min_read_ts, ts) =>
                        Seen(find_visible_version(records'[id], ts))
                            = Seen(find_visible_version(records[id], ts))
      ]_vars

\* a pass has rebuilt a chain: the record holds the collector's copy of a
\* version next to the committed version, which lookups still return
C14_Witness ==
    /\ gc.passes > 0
    /\ mgr.min_read_ts # U64Zero
    /\ \E id \in DOMAIN records :
          \E i \in 1..Len(records[id].version_list) :
              LET v == records[id].version_list[i] IN
              /\ v.status = VERSION_STATUS_PENDING
              /\ U64Le(mgr.min_read_ts, v.wts)
              /\ Seen(find_visible_version(records[id], v.wts)) = <<v.wts, v.data>>

\* C15: after a pass has processed an entry (record, wts) with wts < W, every
\* version remaining on that record's chain has wts >= W, and the record's
\* min_wts is W
C15_GcReclaims ==
    [][ gc'.passes # gc.passes =>
          \A i \in 1..Len(gc.queue) :
              (U64Lt(gc.queue[i][2], mgr.min_read_ts)
                  /\ try_gc_lock(records[gc.queue[i][1]])) =>
                  LET r == records'[gc.queue[i][1]] IN
                  /\ r.min_wts = mgr.min_read_ts
                  /\ \A k \in 1..Len(r.version_list) :
                        U64Le(mgr.min_read_ts, r.version_list[k].wts)
      ]_vars

\* C16: every entry appended by track_version on the engine's collector is
\* eventually examined by the collector thread that start_collection started
C16_TrackedEventuallyExamined ==
    (gc.started /\ gc.queue # <<>>) ~> (gc.examined # {})

\* C18: TransactionManager::create_record(id) on an id in the store returns an
\* error and leaves the store as it was; on an absent id it returns Ok and
\* inserts an empty RecordHead whose creation_timestamp is the current
\* min_write_ts, the other records left alone
C18_CreateRecord ==
    [][ \A id \in RecordIds :
          CreateRecord(id) =>
              IF id \in DOMAIN records
              THEN mgr'.create_result = "System" /\ records' = records
              ELSE /\ mgr'.create_result = "Ok"
                   /\ DOMAIN records' = DOMAIN records \cup {id}
                   /\ records'[id].inline_version = <<>>
                   /\ records'[id].version_list = <<>>
                   /\ records'[id].creation_timestamp = mgr.min_write_ts
                   /\ \A other \in DOMAIN records : records'[other] = records[other]
      ]_vars

\* record 2 was created under a min_write_ts above 0, and a later call on an
\* id whose record holds versions returned the error
C18_Witness ==
    /\ mgr.create_result = "System"
    /\ 2 \in DOMAIN records
    /\ records[2].creation_timestamp # U64Zero
    /\ records[1].version_list # <<>>

\* C17: no operation of a Transaction (read, write, commit, create_record)
\* removes a record or discards versions of a record: every version a commit
\* installed under an id is still held by the RecordHead stored under that id
C17_VersionsKept ==
    \A t \in TxIds :
        \A id \in DOMAIN txs[t].installed_at :
            /\ id \in DOMAIN records
            /\ \E v \in Versions(records[id]) :
                  /\ v.wts = txs[t].timestamp
                  /\ v.data = txs[t].written[id]
                  /\ v.status = VERSION_STATUS_COMMITTED

\* C19: install_version(v) places v in the inline slot exactly when
\* |v.data| <= 216 and the inline slot is empty or v.wts >= inline.wts, the
\* displaced inline version becoming the head of version_list in front of the
\* previous chain; in every other case v becomes the new head of version_list
\* and the inline slot is left as it was.  A payload over 216 bytes is never
\* inline
C19_InstallPlacement ==
    [][ /\ \A t \in TxIds, id \in RecordIds :
              TxInstall(t, id) =>
                  LET v == Version_commit(txs[t].pending[id])
                      r == records[id]
                      after == records'[id]
                  IN  IF /\ v.data.len <= 216
                         /\ \/ r.inline_version = <<>>
                            \/ U64Le(r.inline_version[1].wts, v.wts)
                      THEN /\ after.inline_version = <<v>>
                           /\ after.version_list = r.inline_version \o r.version_list
                      ELSE /\ after.version_list = <<v>> \o r.version_list
                           /\ after.inline_version = r.inline_version
        /\ \A id \in DOMAIN records' :
              records'[id].inline_version # <<>> =>
                  records'[id].inline_version[1].data.len <= 216
      ]_vars

\* a small version with a lower wts was installed after the inline one and is
\* the head of version_list, behind it a payload over 216 bytes
C19_Witness ==
    \E id \in DOMAIN records, a \in TxIds, b \in TxIds :
        /\ id \in DOMAIN txs[a].installed_at
        /\ id \in DOMAIN txs[b].installed_at
        /\ txs[a].installed_at[id] < txs[b].installed_at[id]
        /\ U64Lt(txs[b].timestamp, txs[a].timestamp)
        /\ txs[b].written[id].len <= 216
        /\ records[id].inline_version # <<>>
        /\ records[id].inline_version[1].wts = txs[a].timestamp
        /\ Len(records[id].version_list) >= 2
        /\ records[id].version_list[1].wts = txs[b].timestamp
        /\ records[id].version_list[2].data.len > 216

\* C20: whatever a RecordHead holds, find_visible_version(ts) returns nothing
\* for every ts below its creation_timestamp, also when the record holds
\* committed versions with wts <= ts
C20_NothingBeforeCreation ==
    \A id \in DOMAIN records :
        \A ts \in IssuedTimestamps \cup {U64Zero} :
            U64Lt(ts, records[id].creation_timestamp) =>
                find_visible_version(records[id], ts) = <<>>

\* a record holds a committed version written below its creation_timestamp,
\* and a lookup at that version's wts returns nothing
C20_Witness ==
    \E id \in DOMAIN records :
        \E v \in Versions(records[id]) :
            /\ v.status = VERSION_STATUS_COMMITTED
            /\ v.wts \in IssuedTimestamps
            /\ U64Lt(v.wts, records[id].creation_timestamp)
            /\ find_visible_version(records[id], v.wts) = <<>>

\* the record holds a COMMITTED version with wts <= ts
HasCommittedUpTo(r, ts) ==
    \E v \in Versions(r) : v.status = VERSION_STATUS_COMMITTED /\ U64Le(v.wts, ts)

\* C21: read(id) of an id the transaction did not write returns RecordNotFound
\* when the store has no such record and NoVisibleVersion when the record has
\* no COMMITTED version with wts <= the transaction's timestamp, read_set left
\* as it was; write(id, data) on a missing record returns RecordNotFound and
\* leaves write_set and local_writes as they were
C21_ReadWriteErrors ==
    [][ \A t \in TxIds, id \in RecordIds :
          /\ (TxRead(t, id) /\ id \notin DOMAIN txs[t].local_writes) =>
                /\ id \notin DOMAIN records =>
                      /\ txs'[t].result = Result("read", id, "RecordNotFound", <<>>)
                      /\ txs'[t].read_set = txs[t].read_set
                /\ (id \in DOMAIN records
                      /\ ~HasCommittedUpTo(records[id], txs[t].timestamp)) =>
                      /\ txs'[t].result = Result("read", id, "NoVisibleVersion", <<>>)
                      /\ txs'[t].read_set = txs[t].read_set
          /\ \A len \in PayloadLens :
                (TxWrite(t, id, len) /\ id \notin DOMAIN records) =>
                    /\ txs'[t].result = Result("write", id, "RecordNotFound", <<>>)
                    /\ txs'[t].write_set = txs[t].write_set
                    /\ txs'[t].local_writes = txs[t].local_writes
      ]_vars

\* a read found only a committed version above the transaction's timestamp and
\* returned NoVisibleVersion, the sets of the transaction still empty, while
\* an id is missing from the store
C21_Witness ==
    \E t \in TxIds, id \in DOMAIN records :
        /\ txs[t].result = Result("read", id, "NoVisibleVersion", <<>>)
        /\ \E v \in Versions(records[id]) : v.status = VERSION_STATUS_COMMITTED
        /\ txs[t].read_set = EmptyMap
        /\ txs[t].write_set = EmptyMap
        /\ \E other \in RecordIds : other \notin DOMAIN records

\* the timestamp a clock issues from last_timestamp + 1 alone
PlainSuccessor(c) ==
    U64OrByte(U64Shl8(U64Add(c.last_timestamp, U64(1))), c.thread_id)

\* C22: after an attempt of execute_with_gc ended in Conflict, a boost is
\* applied to the thread's clock before the next attempt's begin timestamp is
\* generated, so that timestamp lies past the successor of last_timestamp
C22_BoostBeforeRetry ==
    [][ (exec.pc = "loop" /\ exec.last = "Conflict" /\ exec'.pc = "closure") =>
            LET c == clocks[exec.thread_id] IN
            /\ c.clock_boost # U64Zero
            /\ U64Lt(PlainSuccessor(c), exec'.tx.timestamp)
      ]_vars

\* C23: the bound backoff() uses on the manager of execute_with_gc is the
\* maximum the hill climbing thread produced: once the thread has raised
\* max_backoff_time to m > 0, backoff() sleeps a duration of 0..m microseconds;
\* while the maximum is 0 it returns without sleeping
C23_BackoffUsesClimbedMaximum ==
    [][ Backoff =>
          /\ (mgr.climber # <<>> /\ mgr.climber[1].max_backoff_time > 0) =>
                /\ mgr'.slept.did
                /\ mgr'.slept.micros \in 0..mgr.climber[1].max_backoff_time
          /\ (mgr.climber = <<>> /\ mgr.contention.max_backoff_time = 0) =>
                ~mgr'.slept.did
      ]_vars

\* C24: a hill-climb step made while the stored last_throughput is 0 leaves
\* max_backoff_time (and the direction) as it was and records the current
\* throughput and the current backoff as the snapshot for the next step
C24_FirstStepOnlySnapshots ==
    [][ (HillClimbStep /\ mgr.climber[1].last_throughput = 0) =>
          /\ mgr'.climber[1].max_backoff_time = mgr.climber[1].max_backoff_time
          /\ mgr'.climber[1].positive_gradient = mgr.climber[1].positive_gradient
          /\ mgr'.climber[1].last_throughput =
                 calculate_throughput(mgr.thread_stats).total_commits
          /\ mgr'.climber[1].last_backoff = mgr.climber[1].max_backoff_time
      ]_vars

\* the first step after construction saw commits: it stored their number and
\* the backoff 0, the maximum still 0
C24_Witness ==
    /\ mgr.climber # <<>>
    /\ mgr.climb_steps = 1
    /\ mgr.climber[1].last_throughput > 0
    /\ mgr.climber[1].max_backoff_time = 0
    /\ mgr.thread_stats.last_commit_count = mgr.thread_stats.commit_count

\* C25: Clock::new(thread_id) fails exactly when thread_id >= 255;
\* ClockManager::new(n, _) returns an error for every n > 255, and for
\* n <= 255 a manager holding n clocks whose thread ids are 0..n-1 in order
C25_Construction ==
    /\ \A call \in {mgr.clock_made[i] : i \in 1..Len(mgr.clock_made)} :
          (call.made.res # "Ok") <=> (call.thread_id >= 255)
    /\ \A call \in {mgr.manager_made[i] : i \in 1..Len(mgr.manager_made)} :
          IF U64Lt(U64(255), call.thread_count)
          THEN call.made.res = "System"
          ELSE /\ call.made.res = "Ok"
               /\ Len(call.made.clocks) = U64Small(call.thread_count)
               /\ \A i \in 1..Len(call.made.clocks) :
                     call.made.clocks[i].thread_id = i - 1

\* C26: when update_min_timestamps has run, min_write_ts is the minimum of
\* last_timestamp over the clocks, is <= the begin timestamp of every
\* transaction that has begun and is neither committed nor dropped, and is <=
\* the latest timestamp each clock generated
C26_WatermarkBelowLive ==
    [][ UpdateMinTimestamps =>
          /\ mgr'.min_write_ts = U64Min({clocks[c].last_timestamp : c \in Threads})
          /\ \A t \in TxIds :
                txs[t].state \in {"active", "installing"} =>
                    U64Le(mgr'.min_write_ts, txs[t].timestamp)
          /\ \A c \in Threads :
                issued[c] # <<>> =>
                    U64Le(mgr'.min_write_ts, issued[c][Len(issued[c])])
      ]_vars

\* the ids of tx's read set for which a version with another wts than the one
\* read is visible now
Mismatched(tx) ==
    {id \in DOMAIN tx.read_set \cap DOMAIN records :
        LET found == find_visible_version(records[id], tx.timestamp)
        IN  found # <<>> /\ found[1].wts # tx.read_set[id].wts}

\* the ids of tx's read set for which no version is visible now
Invisible(tx) ==
    {id \in DOMAIN tx.read_set \cap DOMAIN records :
        find_visible_version(records[id], tx.timestamp) = <<>>}

\* C27: commit returns Ok only if, for every id of the read set, the version
\* visible at validation has the wts of the version read; it returns Conflict
\* when a version with another wts is visible and ValidationFailed when none
\* is visible, and then installs none of the write set
C27_ReadValidation ==
    [][ \A t \in TxIds :
          TxCommit(t) =>
              /\ txs'[t].validated = "Ok" =>
                    Mismatched(txs[t]) = {} /\ Invisible(txs[t]) = {}
              /\ (Mismatched(txs[t]) # {} /\ Invisible(txs[t]) = {}) =>
                    txs'[t].result = Result("commit", 0, "Conflict", <<>>)
              /\ (Invisible(txs[t]) # {} /\ Mismatched(txs[t]) = {}) =>
                    txs'[t].result = Result("commit", 0, "ValidationFailed", <<>>)
              /\ (Mismatched(txs[t]) \cup Invisible(txs[t]) # {}) =>
                    /\ txs'[t].state = "failed"
                    /\ txs'[t].pending = EmptyMap
                    /\ records' = records
      ]_vars

\* a commit returned ValidationFailed for a transaction that had read and
\* written, and nothing of it is in the store
C27_Witness ==
    \E t \in TxIds :
        /\ txs[t].state = "failed"
        /\ txs[t].result = Result("commit", 0, "ValidationFailed", <<>>)
        /\ DOMAIN txs[t].read_set # {}
        /\ Wrote(t) # {}
        /\ StoredBy(t) = {}

\* C28: when execute_with_gc returns Ok, exactly one attempt committed,
\* record_commit(thread_id) was called exactly once, and for every id of the
\* committed transaction's write set exactly one entry (record, wts = the
\* transaction's timestamp) was appended to the collector's queue after the
\* commit; attempts that end in Conflict or in an error append nothing and
\* count no commit
C28_OneCommitTracked ==
    [][ (exec' # exec /\ exec.pc \in {"loop", "closure", "commit"}) =>
          IF exec'.pc = "returned" /\ exec'.result = "Ok"
          THEN LET tx == exec.tx
                   appended == SubSeq(gc'.queue, Len(gc.queue) + 1, Len(gc'.queue))
               IN  /\ exec.recorded = 0 /\ exec'.recorded = 1
                   /\ mgr'.thread_stats.commit_count =
                          [mgr.thread_stats.commit_count EXCEPT ![exec.thread_id] = @ + 1]
                   /\ SubSeq(gc'.queue, 1, Len(gc.queue)) = gc.queue
                   /\ Len(appended) = Cardinality(DOMAIN tx.write_set)
                   /\ \A id \in DOMAIN tx.write_set :
                         /\ \E i \in 1..Len(appended) : appended[i] = <<id, tx.timestamp>>
                         /\ \E v \in Versions(records'[id]) :
                               v.wts = tx.timestamp /\ v.status = VERSION_STATUS_COMMITTED
          ELSE /\ gc'.queue = gc.queue
               /\ mgr'.thread_stats = mgr.thread_stats
               /\ exec'.recorded = 0
      ]_vars

\* a call returned Ok on a retry after a Conflict: one commit recorded, one
\* entry tracked for the one record written
C28_Witness ==
    /\ exec.pc = "returned"
    /\ exec.result = "Ok"
    /\ exec.conflicts >= 1
    /\ exec.recorded = 1
    /\ Len(exec.tracked) = 1
    /\ mgr.thread_stats.commit_count[exec.thread_id] >= 1
    /\ \E i \in 1..Len(gc.queue) : gc.queue[i] = exec.tracked[1]

\* C29: in every record, after any sequence of install_version calls, commits
\* and collector passes, an occupied inline slot holds a wts at least as large
\* as the wts of every version on version_list
C29_InlineNewest ==
    \A id \in DOMAIN records :
        records[id].inline_version # <<>> =>
            \A i \in 1..Len(records[id].version_list) :
                U64Le(records[id].version_list[i].wts, records[id].inline_version[1].wts)

\* C30: in every record version_list is newest-first: each version on the
\* chain has a strictly larger wts than its next
C30_ChainNewestFirst ==
    \A id \in DOMAIN records :
        \A i \in 1..(Len(records[id].version_list) - 1) :
            U64Lt(records[id].version_list[i + 1].wts, records[id].version_list[i].wts)

\* the versions a reader can get to in r: the one in the inline slot and those
\* on the chain under version_list
Reachable(r) ==
    (IF r.inline_version = <<>> THEN {} ELSE {r.inline_version[1]})
        \cup {r.version_list[i] : i \in 1..Len(r.version_list)}

\* how many times v is reachable in r
Occurrences(r, v) ==
    (IF r.inline_version # <<>> /\ r.inline_version[1] = v THEN 1 ELSE 0)
        + Cardinality({i \in 1..Len(r.version_list) : r.version_list[i] = v})

\* C31: install_version never loses a version: over every step, each version
\* that was in the inline slot or on the chain of a record is still in the
\* inline slot or on the chain, as many times, with its wts, data and status,
\* and the step of install_version adds the version it was given
C31_InstallKeepsVersions ==
    [][ /\ \A id \in DOMAIN records :
              /\ id \in DOMAIN records'
              /\ \A v \in Reachable(records[id]) :
                    Occurrences(records'[id], v) >= Occurrences(records[id], v)
        /\ \A t \in TxIds, id \in RecordIds :
              TxInstall(t, id) =>
                  LET v == Version_commit(txs[t].pending[id])
                  IN  Occurrences(records'[id], v) = Occurrences(records[id], v) + 1
      ]_vars

\* a newer small version took the inline slot of a record and the version it
\* displaced is on the chain
C31_Witness ==
    \E id \in DOMAIN records :
        /\ records[id].inline_version # <<>>
        /\ \E i \in 1..Len(records[id].version_list) :
              /\ records[id].version_list[i].data.len <= MAX_INLINE_SIZE
              /\ U64Lt(records[id].version_list[i].wts, records[id].inline_version[1].wts)
              /\ records[id].version_list[i].status = VERSION_STATUS_COMMITTED

\* C32: reclamation is mutually exclusive per record: while the pass of one
\* collector that got true from try_gc_lock rebuilds the chain of a record,
\* no other caller gets true from try_gc_lock on that record, and no two
\* passes rebuild one record at the same time
C32_OneReclamationPerRecord ==
    (gc.pass # <<>> /\ gc.pass[1].rebuilding # <<>>) =>
        ~(/\ gc.other.pc \in {"locked", "rebuilding"}
          /\ gc.other.record = gc.pass[1].rebuilding[1])

\* the entries of queue at the positions from i on that a pass with watermark
\* min_rts keeps: wts >= min_rts, or the lock of the record found busy
RECURSIVE KeptFrom(_, _, _, _)
KeptFrom(queue, i, min_rts, busy) ==
    IF i > Len(queue) THEN <<>>
    ELSE (IF U64Le(min_rts, queue[i][2]) \/ i \in busy THEN <<queue[i]>> ELSE <<>>)
         \o KeptFrom(queue, i + 1, min_rts, busy)

\* C33: after a collect_garbage pass with watermark W the queue holds exactly
\* the entries it held when the pass started that have wts >= W or whose
\* record's gc lock was busy, in their order; and no entry of a track_version
\* that ran next to the pass is lost: it waits for the queue and is appended
\* behind what the pass left
C33_QueueAfterPass ==
    [][ /\ GcPassEnd =>
              /\ gc'.queue = KeptFrom(gc.pass[1].start, 1, gc.pass[1].min_rts, gc.pass[1].busy)
              /\ gc'.waiting = gc.waiting
        /\ TrackWaiting =>
              /\ gc'.queue = gc.queue \o gc.waiting
              /\ gc'.waiting = <<>>
        /\ (gc.pass # <<>> /\ gc'.pass # <<>>) =>
              /\ gc'.pass[1].start = gc.pass[1].start
              /\ Len(gc'.waiting) >= Len(gc.waiting)
              /\ SubSeq(gc'.waiting, 1, Len(gc.waiting)) = gc.waiting
      ]_vars

\* a pass has ended that reclaimed an entry and kept the others, which are the
\* queue now
C33_Witness ==
    /\ gc.pass = <<>>
    /\ gc.ended # <<>>
    /\ gc.ended[1].remaining # <<>>
    /\ Len(gc.ended[1].remaining) < Len(gc.ended[1].start)
    /\ gc.queue = gc.ended[1].remaining

\* C34: a hill-climb step with last_throughput > 0 whose sampled throughput is
\* at least the previous sample moves max_backoff_time by backoff_step the way
\* the previous step moved it (up after an increase, down after a decrease);
\* with a lower throughput it moves it the other way; going down stops at 0
C34_ClimbDirection ==
    [][ (UpdateMaxBackoff /\ mgr.contention.last_throughput > 0) =>
          LET cm == mgr.contention
              sampled == calculate_throughput(mgr.thread_stats).total_commits
              up == cm.max_backoff_time + DEFAULT_BACKOFF_STEP
              down == IF cm.max_backoff_time > DEFAULT_BACKOFF_STEP
                      THEN cm.max_backoff_time - DEFAULT_BACKOFF_STEP ELSE 0
              moved_up == cm.max_backoff_time > cm.last_backoff
              moved_down == cm.max_backoff_time < cm.last_backoff
          IN  /\ (sampled >= cm.last_throughput /\ moved_up) =>
                     mgr'.contention.max_backoff_time = up
              /\ (sampled >= cm.last_throughput /\ moved_down) =>
                     mgr'.contention.max_backoff_time = down
              /\ (sampled < cm.last_throughput /\ moved_up) =>
                     mgr'.contention.max_backoff_time = down
              /\ (sampled < cm.last_throughput /\ moved_down) =>
                     mgr'.contention.max_backoff_time = up
      ]_vars

\* C35: under any interleaving of update_rts calls on one version rts never
\* decreases, and once all calls have returned rts is the maximum of its
\* initial value and the ts of every call
C35_RtsMonotonicMax ==
    [][ /\ U64Le(mgr.rts_version.rts, mgr'.rts_version.rts)
        /\ (\A c \in Threads : mgr'.rts_calls[c].pc = "idle") =>
              /\ \A ts \in mgr'.rts_args : U64Le(ts, mgr'.rts_version.rts)
              /\ mgr'.rts_version.rts \in mgr'.rts_args \cup {U64Zero}
      ]_vars

\* C36: wait_pending yields at most 1000 times and then returns, even with the
\* version PENDING for ever; it returns true exactly when the last status it
\* loaded is COMMITTED; and a reader that meets a version that is not
\* COMMITTED does not get it but the next older visible one
C36_WaitPendingBounded ==
    [][ /\ mgr'.wait_call.attempts <= WAIT_MAX_ATTEMPTS
        /\ (mgr.wait_call.pc = "loop" /\ mgr.wait_call.attempts = WAIT_MAX_ATTEMPTS) =>
              (mgr'.wait_call # mgr.wait_call => WaitPendingReturn)
        /\ WaitPendingReturn =>
              (mgr'.wait_call.result <=> mgr.wait_call.status = VERSION_STATUS_COMMITTED)
        /\ \A ts \in {U64(1), U64(2)} :
              WaitRead(ts) =>
                  LET found == mgr'.wait_found.version
                  IN  IF Waited.status = VERSION_STATUS_COMMITTED /\ ts = U64(2)
                      THEN found = <<Waited>>
                      ELSE /\ found = <<mgr.wait_record.version_list[1]>>
                           /\ found[1].status = VERSION_STATUS_COMMITTED
                           /\ found[1].wts = U64(1)
      ]_vars

\* wait_pending gave up on a version still PENDING after 1000 yields and
\* returned false, and a reader at timestamp 2 got the older version
C36_Witness ==
    /\ mgr.wait_call.pc = "returned"
    /\ mgr.wait_call.attempts = WAIT_MAX_ATTEMPTS
    /\ mgr.wait_call.status = VERSION_STATUS_PENDING
    /\ ~mgr.wait_call.result
    /\ mgr.wait_found.asked
    /\ mgr.wait_found.ts = U64(2)
    /\ mgr.wait_found.version # <<>>
    /\ mgr.wait_found.version[1].wts = U64(1)

\* C37: after a.synchronize_with(b), a.local_clock >= b.local_clock, b is as
\* it was, and the next write timestamp a generates is greater than every
\* write timestamp b generated before the synchronization
C37_SynchronizedClockAhead ==
    [][ \A a \in Threads :
          ClockSynchronize(a) =>
              LET b == (a + 1) % NThreads
              IN  /\ U64Le(clocks'[b].local_clock, clocks'[a].local_clock)
                  /\ clocks'[b] = clocks[b]
                  /\ \A now \in Ticks, k \in 1..Len(issued[b]) :
                        U64Lt(issued[b][k],
                              generate_write_timestamp(clocks'[a], now).last_timestamp)
      ]_vars

\* r read record y from the store after w's commit had installed x and before
\* it installed y
ReadBetweenInstalls(w, r, x, y) ==
    /\ x \in DOMAIN txs[w].installed_at
    /\ y \in DOMAIN txs[r].read_at
    /\ txs[r].read_at[y] >= txs[w].installed_at[x]
    /\ y \in DOMAIN txs[w].installed_at => txs[r].read_at[y] < txs[w].installed_at[y]

\* C39: a commit of two records is atomic to readers: no transaction r with a
\* timestamp at or after that of a committing transaction w reads w's version
\* of one record x that w wrote while its read of the other record y, made
\* when w had installed x, returns the version from before w's write
C39_CommitAtomicToReaders ==
    \A w, r \in TxIds : \A x, y \in RecordIds :
        (/\ w # r
         /\ x # y
         /\ {x, y} \subseteq DOMAIN txs[w].written
         /\ txs[w].validated = "Ok"
         /\ U64Le(txs[w].timestamp, txs[r].timestamp)
         /\ {x, y} \subseteq DOMAIN txs[r].read_set
         /\ txs[r].read_set[x].wts = txs[w].timestamp
         /\ ReadBetweenInstalls(w, r, x, y))
            => ~U64Lt(txs[r].read_set[y].wts, txs[w].timestamp)

\* the keys inserted so far into an index are distinct
DistinctKeys(index) == \A k \in IndexKeys : Len(mgr.index_log[index][k]) <= 1

\* what a lookup of key is to return: the record id inserted with it
Expected(index, key) == mgr.index_log[index][key]

\* C38: on the B-tree index and on the hash index, after distinct keys were
\* inserted in any order, get(k, ts2) with ts2 at or after every insertion
\* timestamp returns Some(r) for the r inserted with k and None for a key never
\* inserted, and a get repeated with no mutation in between returns the same
C38_IndexRoundTrip ==
    [][ \A key \in IndexKeys :
          /\ (BTreeGet(key, 2) /\ DistinctKeys("btree")) =>
                 mgr'.index_call.value = Expected("btree", key)
          /\ (HashGet(key, 2) /\ DistinctKeys("hash")) =>
                 mgr'.index_call.value = Expected("hash", key)
          /\ \A ts \in IndexTimes :
                ((BTreeGet(key, ts) \/ HashGet(key, ts))
                    /\ mgr.index_call.op = "get"
                    /\ mgr.index_call.index = mgr'.index_call.index
                    /\ mgr.index_call.key = key
                    /\ mgr.index_call.ts = ts) =>
                        mgr'.index_call.value = mgr.index_call.value
      ]_vars

\* C40: every BTreeIndex operation returns: a call of insert or remove never
\* waits for a lock of the index that cannot be granted, be the root full or
\* the removed key in a leaf
C40_BTreeCallsReturn ==
    mgr.index_call.wants # <<>> =>
        LockFree(mgr.index_call.held, mgr.index_call.wants[1])

\* C9: on every clock, each call of generate_write_timestamp returns a value
\* strictly greater than the one the previous call on that clock returned
\* (so last_timestamp, the value returned last, never decreases).
C9_StrictlyIncreasing ==
    \A c \in Threads : \A i \in 1..(Len(issued[c]) - 1) :
        U64Lt(issued[c][i], issued[c][i + 1])

\* C10: every timestamp T returned by the clock of thread tid has
\* T & 0xFF = tid, whatever the local clock, boost and last timestamp were;
\* so timestamps of two clocks with different thread ids are never equal.
C10_ThreadBits ==
    /\ \A c \in Threads : \A i \in 1..Len(issued[c]) :
           U64LowByte(issued[c][i]) = clocks[c].thread_id
    /\ \A c1, c2 \in Threads :
           c1 # c2 =>
               \A i \in 1..Len(issued[c1]), j \in 1..Len(issued[c2]) :
                   issued[c1][i] # issued[c2][j]

\* two clocks have returned timestamps, one of them under a boost and an
\* advanced local clock
C10_Witness ==
    \E c1, c2 \in Threads :
        /\ c1 # c2
        /\ Len(issued[c1]) >= 2
        /\ Len(issued[c2]) >= 1
        /\ clocks[c1].clock_boost # U64Zero
        /\ clocks[c1].local_clock # U64Zero

====
